---- MODULE Spec2Model ----
(***************************************************************************)
(* Model of the transcription pipeline of Whisper_app:                     *)
(*   workers/workers_base.py           BaseWorker (signals, cancel flag)   *)
(*   workers/workers_transcription.py  TranscriptionWorker.run and         *)
(*                                     _create_output_files                *)
(*   core/core_whisper.py, core_summarizer.py, translator.py,              *)
(*   core_file_handler.py              the collaborators run() calls       *)
(*   ui/ui_main_window.py              the observer that starts a run and  *)
(*                                     whose cancel button calls cancel()  *)
(*                                                                         *)
(* The worker thread is a sequential process whose position is pc; the UI  *)
(* thread may call cancel() between any two worker steps.  A step of the   *)
(* worker is one statement of run() or one statement of a collaborator     *)
(* that reads the cancellation flag, emits a signal or calls out.          *)
(***************************************************************************)
EXTENDS Integers, Sequences, FiniteSets, TLC

VARIABLES
    pc,                  \* position of the worker thread in run()
    req,                 \* the worker's constructor arguments (JobRequest)
    cancelled,           \* BaseWorker._is_cancelled
    pending,             \* signal that passed the is_cancelled() test and is about to be emitted
    events,              \* signals emitted so far, in emission order
    delivered,           \* payload object of the success completion (<<>> = none)
    calls,               \* collaborator entries and external calls made by this run, in order
    written,             \* paths this run's renderers wrote
    result,              \* TranscriptionWorker.result
    loc,                 \* local variables of run() and of the running collaborator
    models,              \* WhisperProcessor._models (process-wide cache), as the set of its keys
    current_model_size,  \* WhisperProcessor.current_model_size ("None" = no current model)
    cancelPc,            \* history: pc at the first cancel() of this run ("" = never)
    observedAt,          \* history: Len(calls) when a status callback first read the flag as set (-1 = never)
    input,               \* the arguments of the FileHandler function being called
    output,              \* what that function wrote and returned
    prev,                \* history: the runs handled by _on_conversion_finished, in order
    start_button         \* the main window's start button is enabled

\* the variables a step of a run leaves alone
aux == <<input, output, prev, start_button>>

vars == <<pc, req, cancelled, pending, events, delivered, calls, written,
          result, loc, models, current_model_size, cancelPc, observedAt, aux>>

----------------------------------------------------------------------------
(* Bounds *)

MaxSegs == 2

\* how many optional sub-items (a translation call, a summarizer call, a
\* renderer call) may fail in one run
MaxFaults == 1

----------------------------------------------------------------------------
(* Values *)

None == "None"

ModelIds == {"base"}
\* the identifiers load_model is called with when the cache is looked at on its own
ModelSizes == ModelIds \cup {"tiny", "small"}
TargetLangs == {"ko"}
Formats == {"txt", "srt", "pdf"}

\* the elements of a sequence
Range(q) == {q[i] : i \in 1..Len(q)}

Reverse(q) == [i \in 1..Len(q) |-> q[Len(q) + 1 - i]]

\* FormatSelector.get_formats: the checked formats, in checkbox order
get_formats(checked) ==
    LET IsChecked(f) == f \in checked
    IN SelectSeq(<<"txt", "srt", "pdf">>, IsChecked)

\* the format lists a worker is constructed with: the list of the selector
\* with one format or with every format checked, or (the constructor takes
\* any list) every format in the opposite order
FormatLists ==
    {get_formats({f}) : f \in Formats}
    \cup {get_formats(Formats), Reverse(get_formats(Formats))}
\* the input file is InputDir/BaseName.<ext>
InputDir == "dir"
BaseName == "in"
batch_size == 10

CancelMsg == "cancelled"

\* Python truthiness of an Optional[str]
Truthy(s) == s # None /\ s # ""

\* Optional[list]: None, or a list
NoSegs == [some |-> FALSE, val |-> <<>>]
SomeSegs(s) == [some |-> TRUE, val |-> s]
TruthySegs(o) == o.some /\ Len(o.val) > 0

Segment(i, t) == [start |-> (i - 1) * 2500, end |-> i * 2500, text |-> t]

\* the segment texts of a transcript of n segments: every text a word after
\* a leading blank (as the engine produces them), or the last one empty (a
\* segment without speech)
SegTexts(n, lastEmpty) ==
    [i \in 1..n |-> IF i = n /\ lastEmpty THEN "" ELSE " a"]

\* transcripts of no segment, of one segment and of MaxSegs segments
SegLists ==
    {SegTexts(n, e) : n \in {0, 1, MaxSegs}, e \in BOOLEAN}

RECURSIVE JoinTexts(_)
JoinTexts(ts) == IF ts = <<>> THEN "" ELSE Head(ts) \o JoinTexts(Tail(ts))

\* The result of the transcription engine: full text and timed segments
Transcript(ts) ==
    [some |-> TRUE, text |-> JoinTexts(ts),
     segments |-> [i \in 1..Len(ts) |-> Segment(i, ts[i])]]

NoTranscript == [some |-> FALSE, text |-> "", segments |-> <<>>]

Transcripts == {Transcript(ts) : ts \in SegLists}

\* n segment texts, joined
RECURSIVE Words(_)
Words(n) == IF n = 0 THEN "" ELSE " a" \o Words(n - 1)

\* str.strip(): of the texts of a run only the joined segment texts have a
\* blank at an end, the leading one
Joined == [n \in 1..MaxSegs |-> Words(n)]
Stripped == [n \in 1..MaxSegs |-> "a" \o Words(n - 1)]
strip(t) ==
    IF \E n \in 1..MaxSegs : t = Joined[n]
    THEN Stripped[CHOOSE n \in 1..MaxSegs : t = Joined[n]]
    ELSE t

Translated(t, lang) == lang \o ":" \o t
Summarized(t) == "sum:" \o t

NoTranslation == [some |-> FALSE, text |-> None, summary |-> None, segments |-> NoSegs]

\* TranscriptionWorker.__init__: self.result
InitResult ==
    [transcript |-> NoTranscript, summary |-> None,
     translation |-> NoTranslation, files |-> <<>>]

\* the locals of run(), unset
InitLoc ==
    [ret_ok |-> FALSE,
     transcription_result |-> NoTranscript,
     summary_text |-> None,
     translated_text |-> None,
     translated_summary |-> None,
     translated_segments |-> NoSegs,
     created_files |-> <<>>,
     i |-> 0,
     acc |-> <<>>,
     pauses |-> 0,
     faults |-> 0,
     k |-> 1,
     exc |-> ""]

Requests ==
    [model_size : ModelIds,
     output_formats : FormatLists,
     enable_summary : BOOLEAN,
     enable_translation : BOOLEAN,
     target_language : TargetLangs]

NoRequest ==
    [model_size |-> "base", output_formats |-> <<"txt", "srt">>,
     enable_summary |-> FALSE, enable_translation |-> FALSE,
     target_language |-> "ko"]

----------------------------------------------------------------------------
(* Signals *)

Progress(n) == [k |-> "progress", n |-> n, m |-> "", ok |-> FALSE]
Status(m) == [k |-> "status", n |-> 0, m |-> m, ok |-> FALSE]
Error(m) == [k |-> "error", n |-> 0, m |-> m, ok |-> FALSE]
Finished(ok, m) == [k |-> "finished", n |-> 0, m |-> m, ok |-> ok]

Max(a, b) == IF a > b THEN a ELSE b
Min(a, b) == IF a < b THEN a ELSE b

Call(fn, arg) == [fn |-> fn, arg |-> arg]

\* str(e) of the exceptions a constructor called by run() can raise
ExcMessages == {"summarizer unavailable", "translator unavailable"}

\* the message the outer handler of run() gives emit_error (line 189)
TaskFailed(e) == "task failed: " \o e

\* the outcomes of an optional sub-item: success, and failure while the run's
\* failure budget lasts
Outcomes == IF loc.faults < MaxFaults THEN BOOLEAN ELSE {TRUE}
Fault(l) == [l EXCEPT !.faults = @ + 1]

----------------------------------------------------------------------------
(* BaseWorker *)

is_cancelled == cancelled

\* update_progress: the flag is read, then the clamped value is emitted
update_progress(value) ==
    pending' = IF is_cancelled THEN <<>> ELSE <<Progress(Max(0, Min(100, value)))>>

\* update_status: the flag is read, then the message is emitted
update_status(message) ==
    pending' = IF is_cancelled THEN <<>> ELSE <<Status(message)>>

\* a collaborator's progress_callback(message): run() passes self.update_status.
\* n is the number of calls made when the callback runs.
progress_callback(message, n) ==
    /\ update_status(message)
    /\ observedAt' = IF is_cancelled /\ observedAt < 0 THEN n ELSE observedAt

emit_error(message) == events' = Append(events, Error(message))

emit_finished(success, payload) ==
    /\ events' = Append(events, Finished(success, payload))
    /\ delivered' = IF success THEN <<result'>> ELSE <<>>

\* the emit that follows the flag test of update_progress / update_status
Emit ==
    /\ pending # <<>>
    /\ events' = Append(events, pending[1])
    /\ pending' = <<>>
    /\ UNCHANGED <<pc, req, cancelled, delivered, calls, written, result, loc,
                   models, current_model_size, cancelPc, observedAt>>
    /\ UNCHANGED aux

\* mutant: a second cancel() withdraws the request
cancel_toggles ==
    /\ pc # "idle"
    /\ cancelled' = ~cancelled
    /\ cancelPc' = IF cancelPc = "" THEN pc ELSE cancelPc
    /\ UNCHANGED <<pc, req, pending, events, delivered, calls, written, result,
                   loc, models, current_model_size, observedAt>>
    /\ UNCHANGED aux

\* cancel(), called by the UI thread (cancel button) at any time once the worker exists
cancel ==
    /\ pc # "idle"
    /\ cancelled' = TRUE
    /\ cancelPc' = IF cancelPc = "" THEN pc ELSE cancelPc
    /\ UNCHANGED <<pc, req, pending, events, delivered, calls, written, result,
                   loc, models, current_model_size, observedAt>>
    /\ UNCHANGED aux

----------------------------------------------------------------------------
(* MainWindow: starting a run *)

\* a worker step is taken only when the previous signal has been emitted
At(l) == pc = l /\ pending = <<>>

\* mutant: the start button is left enabled while the run is active
_start_conversion_stays_enabled ==
    /\ start_button
    /\ \E r \in Requests : req' = r
    /\ start_button' = TRUE
    /\ pc' = "start"
    /\ cancelled' = FALSE
    /\ events' = <<>>
    /\ delivered' = <<>>
    /\ calls' = <<>>
    /\ written' = {}
    /\ result' = InitResult
    /\ loc' = InitLoc
    /\ cancelPc' = ""
    /\ observedAt' = -1
    /\ UNCHANGED <<pending, models, current_model_size, input, output, prev>>

\* _start_conversion: a new worker and a new dialog for a new request; the
\* start button is disabled from here until _on_conversion_finished
_start_conversion ==
    /\ start_button
    /\ \E r \in Requests : req' = r
    /\ start_button' = FALSE
    /\ pc' = "start"
    /\ cancelled' = FALSE
    /\ events' = <<>>
    /\ delivered' = <<>>
    /\ calls' = <<>>
    /\ written' = {}
    /\ result' = InitResult
    /\ loc' = InitLoc
    /\ cancelPc' = ""
    /\ observedAt' = -1
    /\ UNCHANGED <<pending, models, current_model_size, input, output, prev>>

----------------------------------------------------------------------------
(* TranscriptionWorker.run, stage 1: model acquisition *)

\* line 55
run_progress_0 ==
    /\ At("start")
    /\ update_progress(0)
    /\ pc' = "status_load"
    /\ UNCHANGED <<req, cancelled, events, delivered, calls, written, result, loc,
                   models, current_model_size, cancelPc, observedAt>>
    /\ UNCHANGED aux

\* line 56
run_status_load ==
    /\ At("status_load")
    /\ update_status("loading model")
    /\ pc' = "load_model"
    /\ UNCHANGED <<req, cancelled, events, delivered, calls, written, result, loc,
                   models, current_model_size, cancelPc, observedAt>>
    /\ UNCHANGED aux

\* mutant: any cached model is taken for the one asked for
load_model_lookup_any_cached ==
    /\ At("load_model")
    /\ calls' = Append(calls, Call("load_model", req.model_size))
    /\ LET cur == None   \* __init__: current_model = None, current_model_size = None
       IN IF req.model_size = cur
          THEN /\ progress_callback("using current model", Len(calls) + 1)
               /\ current_model_size' = cur
               /\ loc' = [loc EXCEPT !.ret_ok = TRUE]
               /\ pc' = "load_ret"
          ELSE IF models # {}
          THEN /\ progress_callback("model loaded from cache", Len(calls) + 1)
               /\ current_model_size' = req.model_size
               /\ loc' = [loc EXCEPT !.ret_ok = TRUE]
               /\ pc' = "load_ret"
          ELSE /\ progress_callback("downloading model", Len(calls) + 1)
               /\ current_model_size' = cur
               /\ loc' = loc
               /\ pc' = "load_fetch"
    /\ UNCHANGED <<req, cancelled, events, delivered, written, result, models, cancelPc>>
    /\ UNCHANGED aux

\* WhisperProcessor.get_instance() runs __init__ again (current model reset),
\* then load_model up to its first callback: reuse of the current model,
\* cache hit, or the start of a fresh load
load_model_lookup ==
    /\ At("load_model")
    /\ calls' = Append(calls, Call("load_model", req.model_size))
    /\ LET cur == None   \* __init__: current_model = None, current_model_size = None
       IN IF req.model_size = cur
          THEN /\ progress_callback("using current model", Len(calls) + 1)
               /\ current_model_size' = cur
               /\ loc' = [loc EXCEPT !.ret_ok = TRUE]
               /\ pc' = "load_ret"
          ELSE IF req.model_size \in models
          THEN /\ progress_callback("model loaded from cache", Len(calls) + 1)
               /\ current_model_size' = req.model_size
               /\ loc' = [loc EXCEPT !.ret_ok = TRUE]
               /\ pc' = "load_ret"
          ELSE /\ progress_callback("downloading model", Len(calls) + 1)
               /\ current_model_size' = cur
               /\ loc' = loc
               /\ pc' = "load_fetch"
    /\ UNCHANGED <<req, cancelled, events, delivered, written, result, models, cancelPc>>
    /\ UNCHANGED aux

\* whisper.load_model: returns a model (cached, made current) or raises
load_model_fetch ==
    /\ At("load_fetch")
    /\ calls' = Append(calls, Call("whisper.load_model", req.model_size))
    /\ \E ok \in BOOLEAN :
         IF ok
         THEN /\ models' = models \cup {req.model_size}
              /\ current_model_size' = req.model_size
              /\ progress_callback("model loaded", Len(calls) + 1)
              /\ loc' = [loc EXCEPT !.ret_ok = TRUE]
         ELSE /\ UNCHANGED <<models, current_model_size>>
              /\ progress_callback("model load failed", Len(calls) + 1)
              /\ loc' = [loc EXCEPT !.ret_ok = FALSE]
    /\ pc' = "load_ret"
    /\ UNCHANGED <<req, cancelled, events, delivered, written, result, cancelPc>>
    /\ UNCHANGED aux

\* mutant: the return value of load_model is not tested
run_load_test_ignored ==
    /\ At("load_ret")
    /\ pc' = "check_load"
    /\ UNCHANGED <<req, cancelled, pending, events, delivered, calls, written, result, loc,
                   models, current_model_size, cancelPc, observedAt>>
    /\ UNCHANGED aux

\* mutant: the cancellation check comes before the failure test
run_load_test_after_check ==
    /\ At("load_ret")
    /\ IF is_cancelled
       THEN /\ emit_finished(FALSE, CancelMsg)
            /\ pc' = "done"
       ELSE IF loc.ret_ok
            THEN /\ pc' = "check_load"
                 /\ UNCHANGED <<events, delivered>>
            ELSE /\ emit_error("model load failed")
                 /\ pc' = "fin_load_failed"
                 /\ UNCHANGED delivered
    /\ UNCHANGED <<req, cancelled, pending, calls, written, result, loc,
                   models, current_model_size, cancelPc, observedAt>>
    /\ UNCHANGED aux

\* lines 60-64: the failure test, and emit_error on failure
run_load_test ==
    /\ At("load_ret")
    /\ IF loc.ret_ok
       THEN /\ pc' = "check_load"
            /\ UNCHANGED events
       ELSE /\ emit_error("model load failed")
            /\ pc' = "fin_load_failed"
    /\ UNCHANGED <<req, cancelled, pending, delivered, calls, written, result, loc,
                   models, current_model_size, cancelPc, observedAt>>
    /\ UNCHANGED aux

\* line 65-66
run_fin_load_failed ==
    /\ At("fin_load_failed")
    /\ emit_finished(FALSE, None)
    /\ pc' = "done"
    /\ UNCHANGED <<req, cancelled, pending, calls, written, result, loc,
                   models, current_model_size, cancelPc, observedAt>>
    /\ UNCHANGED aux

\* mutant: the check emits the completion but the return is missing
cancel_check_no_return(next) ==
    /\ IF is_cancelled
       THEN emit_finished(FALSE, CancelMsg)
       ELSE UNCHANGED <<events, delivered>>
    /\ pc' = next

\* mutant: the check ends the run without the cancellation message
cancel_check_null_payload(next) ==
    /\ IF is_cancelled
       THEN /\ emit_finished(FALSE, None)
            /\ pc' = "done"
       ELSE /\ UNCHANGED <<events, delivered>>
            /\ pc' = next

\* a cancellation check of run(): if self.is_cancelled(): emit_finished(False, msg); return
cancel_check(next) ==
    /\ IF is_cancelled
       THEN /\ emit_finished(FALSE, CancelMsg)
            /\ pc' = "done"
       ELSE /\ UNCHANGED <<events, delivered>>
            /\ pc' = next

\* lines 68-70
run_check_load ==
    /\ At("check_load")
    /\ result' = result
    /\ cancel_check("progress_10")
    /\ UNCHANGED <<req, cancelled, pending, calls, written, loc,
                   models, current_model_size, cancelPc, observedAt>>
    /\ UNCHANGED aux

----------------------------------------------------------------------------
(* stage 2: transcription *)

\* line 72
run_progress_10 ==
    /\ At("progress_10")
    /\ update_progress(10)
    /\ pc' = "status_transcribe"
    /\ UNCHANGED <<req, cancelled, events, delivered, calls, written, result, loc,
                   models, current_model_size, cancelPc, observedAt>>
    /\ UNCHANGED aux

\* line 75
run_status_transcribe ==
    /\ At("status_transcribe")
    /\ update_status("transcribing")
    /\ pc' = "transcribe"
    /\ UNCHANGED <<req, cancelled, events, delivered, calls, written, result, loc,
                   models, current_model_size, cancelPc, observedAt>>
    /\ UNCHANGED aux

\* WhisperProcessor.transcribe up to its first callback
transcribe_enter ==
    /\ At("transcribe")
    /\ calls' = Append(calls, Call("transcribe", BaseName))
    /\ IF current_model_size = None
       THEN /\ loc' = [loc EXCEPT !.transcription_result = NoTranscript]
            /\ UNCHANGED <<pending, observedAt>>
            /\ pc' = "transcribe_ret"
       ELSE /\ progress_callback("transcribing file", Len(calls) + 1)
            /\ loc' = loc
            /\ pc' = "transcribe_model"
    /\ UNCHANGED <<req, cancelled, events, delivered, written, result,
                   models, current_model_size, cancelPc>>
    /\ UNCHANGED aux

\* current_model.transcribe: returns a result or raises (caught: returns None)
transcribe_model ==
    /\ At("transcribe_model")
    /\ calls' = Append(calls, Call("model.transcribe", BaseName))
    /\ \/ \E t \in Transcripts :
            /\ loc' = [loc EXCEPT !.transcription_result = t]
            /\ progress_callback("transcription done", Len(calls) + 1)
       \/ /\ loc' = [loc EXCEPT !.transcription_result = NoTranscript]
          /\ progress_callback("transcription failed", Len(calls) + 1)
    /\ pc' = "transcribe_ret"
    /\ UNCHANGED <<req, cancelled, events, delivered, written, result,
                   models, current_model_size, cancelPc>>
    /\ UNCHANGED aux

\* mutant: a failed transcription is tried again
run_transcribe_test_retries ==
    /\ At("transcribe_ret")
    /\ pc' = IF loc.transcription_result.some THEN "check_transcribe" ELSE "transcribe"
    /\ UNCHANGED <<req, cancelled, pending, events, delivered, calls, written, result, loc,
                   models, current_model_size, cancelPc, observedAt>>
    /\ UNCHANGED aux

\* lines 83-84
run_transcribe_test ==
    /\ At("transcribe_ret")
    /\ IF loc.transcription_result.some
       THEN /\ pc' = "check_transcribe"
            /\ UNCHANGED events
       ELSE /\ emit_error("transcription failed")
            /\ pc' = "fin_transcribe_failed"
    /\ UNCHANGED <<req, cancelled, pending, delivered, calls, written, result, loc,
                   models, current_model_size, cancelPc, observedAt>>
    /\ UNCHANGED aux

\* lines 85-86
run_fin_transcribe_failed ==
    /\ At("fin_transcribe_failed")
    /\ emit_finished(FALSE, None)
    /\ pc' = "done"
    /\ UNCHANGED <<req, cancelled, pending, calls, written, result, loc,
                   models, current_model_size, cancelPc, observedAt>>
    /\ UNCHANGED aux

\* mutant: no cancellation check after transcription
run_check_transcribe_missing ==
    /\ At("check_transcribe")
    /\ pc' = "progress_60"
    /\ UNCHANGED <<req, cancelled, pending, events, delivered, calls, written, result, loc,
                   models, current_model_size, cancelPc, observedAt>>
    /\ UNCHANGED aux

\* lines 88-90
run_check_transcribe ==
    /\ At("check_transcribe")
    /\ result' = result
    /\ cancel_check("progress_60")
    /\ UNCHANGED <<req, cancelled, pending, calls, written, loc,
                   models, current_model_size, cancelPc, observedAt>>
    /\ UNCHANGED aux

\* mutant: the transcript is not stored in the result
run_progress_60_no_transcript ==
    /\ At("progress_60")
    /\ update_progress(60)
    /\ pc' = "summary"
    /\ UNCHANGED <<req, cancelled, events, delivered, calls, written, result, loc,
                   models, current_model_size, cancelPc, observedAt>>
    /\ UNCHANGED aux

\* lines 92-96
run_progress_60 ==
    /\ At("progress_60")
    /\ result' = [result EXCEPT !.transcript = loc.transcription_result]
    /\ update_progress(60)
    /\ pc' = "summary"
    /\ UNCHANGED <<req, cancelled, events, delivered, calls, written, loc,
                   models, current_model_size, cancelPc, observedAt>>
    /\ UNCHANGED aux

transcript_text == loc.transcription_result.text
segments == loc.transcription_result.segments

----------------------------------------------------------------------------
(* stage 3: summarization *)

\* mutant: update_progress(70) sits inside the summary branch, so a run
\* without summary goes on to stage 4 without reporting the milestone
run_summary_milestone_inside ==
    /\ At("summary")
    /\ IF req.enable_summary
       THEN /\ update_status("summarizing")
            /\ pc' = "summarizer_new"
       ELSE /\ UNCHANGED pending
            /\ pc' = "translation"
    /\ UNCHANGED <<req, cancelled, events, delivered, calls, written, result, loc,
                   models, current_model_size, cancelPc, observedAt>>
    /\ UNCHANGED aux

\* lines 99-101
run_summary ==
    /\ At("summary")
    /\ IF req.enable_summary
       THEN /\ update_status("summarizing")
            /\ pc' = "summarizer_new"
       ELSE /\ UNCHANGED pending
            /\ pc' = "progress_70"
    /\ UNCHANGED <<req, cancelled, events, delivered, calls, written, result, loc,
                   models, current_model_size, cancelPc, observedAt>>
    /\ UNCHANGED aux

\* line 103: TextSummarizer() returns, or raises into the handler of run()
run_summarizer_new ==
    /\ At("summarizer_new")
    /\ \E raised \in BOOLEAN :
         IF raised
         THEN /\ loc' = [loc EXCEPT !.exc = "summarizer unavailable"]
              /\ pc' = "except"
         ELSE /\ loc' = loc
              /\ pc' = "summarize"
    /\ UNCHANGED <<req, cancelled, pending, events, delivered, calls, written, result,
                   models, current_model_size, cancelPc, observedAt>>
    /\ UNCHANGED aux

\* TextSummarizer.summarize up to its first callback
summarize_enter ==
    /\ At("summarize")
    /\ calls' = Append(calls, Call("summarize", transcript_text))
    /\ IF strip(transcript_text) = ""
       THEN /\ loc' = [loc EXCEPT !.summary_text = None]
            /\ UNCHANGED <<pending, observedAt>>
            /\ pc' = "summary_ret"
       ELSE /\ progress_callback("analyzing text", Len(calls) + 1)
            /\ loc' = loc
            /\ pc' = "summarize_tokenize"
    /\ UNCHANGED <<req, cancelled, events, delivered, written, result,
                   models, current_model_size, cancelPc>>
    /\ UNCHANGED aux

\* sent_tokenize and the sentence count test: too few sentences return the
\* text itself; a fault returns None
summarize_tokenize ==
    /\ At("summarize_tokenize")
    /\ calls' = Append(calls, Call("sent_tokenize", transcript_text))
    /\ \E outcome \in {"few", "many"} \cup (IF FALSE \in Outcomes THEN {"raise"} ELSE {}) :
         CASE outcome = "raise" ->
                /\ progress_callback("summary failed", Len(calls) + 1)
                /\ loc' = Fault([loc EXCEPT !.summary_text = None])
                /\ pc' = "summary_ret"
           [] outcome = "few" ->
                /\ UNCHANGED <<pending, observedAt>>
                /\ loc' = [loc EXCEPT !.summary_text = transcript_text]
                /\ pc' = "summary_ret"
           [] outcome = "many" ->
                /\ progress_callback("generating summary", Len(calls) + 1)
                /\ loc' = loc
                /\ pc' = "summarize_lsa"
    /\ UNCHANGED <<req, cancelled, events, delivered, written, result,
                   models, current_model_size, cancelPc>>
    /\ UNCHANGED aux

\* the LSA summarizer: the joined sentences (possibly none), or a fault
summarize_lsa ==
    /\ At("summarize_lsa")
    /\ calls' = Append(calls, Call("LsaSummarizer", transcript_text))
    /\ \/ \E s \in {Summarized(transcript_text), ""} :
            /\ loc' = [loc EXCEPT !.summary_text = s]
            /\ progress_callback("summary done", Len(calls) + 1)
       \/ /\ FALSE \in Outcomes
          /\ loc' = Fault([loc EXCEPT !.summary_text = None])
          /\ progress_callback("summary failed", Len(calls) + 1)
    /\ pc' = "summary_ret"
    /\ UNCHANGED <<req, cancelled, events, delivered, written, result,
                   models, current_model_size, cancelPc>>
    /\ UNCHANGED aux

\* mutant: a summary that is null or empty ends the run as a failure
run_summary_ret_required ==
    /\ At("summary_ret")
    /\ result' = IF Truthy(loc.summary_text)
                 THEN [result EXCEPT !.summary = loc.summary_text]
                 ELSE result
    /\ IF Truthy(loc.summary_text)
       THEN cancel_check("progress_70")
       ELSE /\ events' = events \o <<Error("summary failed"), Finished(FALSE, None)>>
            /\ delivered' = <<>>
            /\ pc' = "done"
    /\ UNCHANGED <<req, cancelled, pending, calls, written, loc,
                   models, current_model_size, cancelPc, observedAt>>
    /\ UNCHANGED aux

\* lines 110-115
run_summary_ret ==
    /\ At("summary_ret")
    /\ result' = IF Truthy(loc.summary_text)
                 THEN [result EXCEPT !.summary = loc.summary_text]
                 ELSE result
    /\ cancel_check("progress_70")
    /\ UNCHANGED <<req, cancelled, pending, calls, written, loc,
                   models, current_model_size, cancelPc, observedAt>>
    /\ UNCHANGED aux

\* mutant: the milestone of stage 3 is below the one of stage 2
run_progress_70_low ==
    /\ At("progress_70")
    /\ update_progress(50)
    /\ pc' = "translation"
    /\ UNCHANGED <<req, cancelled, events, delivered, calls, written, result, loc,
                   models, current_model_size, cancelPc, observedAt>>
    /\ UNCHANGED aux

\* line 117
run_progress_70 ==
    /\ At("progress_70")
    /\ update_progress(70)
    /\ pc' = "translation"
    /\ UNCHANGED <<req, cancelled, events, delivered, calls, written, result, loc,
                   models, current_model_size, cancelPc, observedAt>>
    /\ UNCHANGED aux

----------------------------------------------------------------------------
(* stage 4: translation *)

\* mutant: the translation stage runs whatever the toggle says
run_translation_always ==
    /\ At("translation")
    /\ update_status("translating")
    /\ pc' = "translator_new"
    /\ UNCHANGED <<req, cancelled, events, delivered, calls, written, result, loc,
                   models, current_model_size, cancelPc, observedAt>>
    /\ UNCHANGED aux

\* lines 120-125
run_translation ==
    /\ At("translation")
    /\ IF req.enable_translation
       THEN /\ update_status("translating")
            /\ pc' = "translator_new"
       ELSE /\ UNCHANGED pending
            /\ pc' = "progress_85"
    /\ UNCHANGED <<req, cancelled, events, delivered, calls, written, result, loc,
                   models, current_model_size, cancelPc, observedAt>>
    /\ UNCHANGED aux

\* line 127: Translator() returns, or raises into the handler of run()
run_translator_new ==
    /\ At("translator_new")
    /\ \E raised \in BOOLEAN :
         IF raised
         THEN /\ loc' = [loc EXCEPT !.exc = "translator unavailable"]
              /\ pc' = "except"
         ELSE /\ loc' = loc
              /\ pc' = "translate_text"
    /\ UNCHANGED <<req, cancelled, pending, events, delivered, calls, written, result,
                   models, current_model_size, cancelPc, observedAt>>
    /\ UNCHANGED aux

\* the text a translate_text call of run() is given: the transcript (line 130)
\* or the summary (line 138)
TextOf(w) == IF w = "text" THEN transcript_text ELSE loc.summary_text

\* where run() continues after a translate_text call: the summary is
\* translated only if there is one (line 137)
AfterTranslate(w) ==
    IF w = "text" /\ Truthy(loc.summary_text) THEN "translate_summary"
    ELSE "translate_segments"

\* run() stores the value translate_text returned
StoreTranslated(w, v) ==
    IF w = "text" THEN [loc EXCEPT !.translated_text = v]
    ELSE [loc EXCEPT !.translated_summary = v]

\* Translator.translate_text up to its first callback
translate_text_enter(w) ==
    /\ At("translate_" \o w)
    /\ calls' = Append(calls, Call("translate_text", w))
    /\ IF strip(TextOf(w)) = ""
       THEN /\ loc' = StoreTranslated(w, None)
            /\ UNCHANGED <<pending, observedAt>>
            /\ pc' = AfterTranslate(w)
       ELSE /\ progress_callback("translating", Len(calls) + 1)
            /\ loc' = loc
            /\ pc' = "translate_" \o w \o "_api"
    /\ UNCHANGED <<req, cancelled, events, delivered, written, result,
                   models, current_model_size, cancelPc>>
    /\ UNCHANGED aux

\* mutant: a failed translation call abandons the rest of the stage
translate_text_api_fatal(w) ==
    /\ At("translate_" \o w \o "_api")
    /\ calls' = Append(calls, Call("translator.translate", w))
    /\ \E ok \in Outcomes :
         IF ok
         THEN /\ loc' = StoreTranslated(w, Translated(TextOf(w), req.target_language))
              /\ progress_callback("translation done", Len(calls) + 1)
              /\ pc' = AfterTranslate(w)
         ELSE /\ loc' = Fault(StoreTranslated(w, None))
              /\ progress_callback("translation failed", Len(calls) + 1)
              /\ pc' = "translation_ret"
    /\ UNCHANGED <<req, cancelled, events, delivered, written, result,
                   models, current_model_size, cancelPc>>
    /\ UNCHANGED aux

\* the translation service: the translated text, or a fault (caught: None)
translate_text_api(w) ==
    /\ At("translate_" \o w \o "_api")
    /\ calls' = Append(calls, Call("translator.translate", w))
    /\ \E ok \in Outcomes :
         IF ok
         THEN /\ loc' = StoreTranslated(w, Translated(TextOf(w), req.target_language))
              /\ progress_callback("translation done", Len(calls) + 1)
         ELSE /\ loc' = Fault(StoreTranslated(w, None))
              /\ progress_callback("translation failed", Len(calls) + 1)
    /\ pc' = AfterTranslate(w)
    /\ UNCHANGED <<req, cancelled, events, delivered, written, result,
                   models, current_model_size, cancelPc>>
    /\ UNCHANGED aux

\* Translator.translate_segments, lines 101-109
translate_segments_enter ==
    /\ At("translate_segments")
    /\ calls' = Append(calls, Call("translate_segments", ""))
    /\ IF Len(segments) = 0
       THEN /\ loc' = [loc EXCEPT !.translated_segments = NoSegs]
            /\ pc' = "translation_ret"
       ELSE /\ loc' = [loc EXCEPT !.i = 0, !.acc = <<>>]
            /\ pc' = "segment_callback"
    /\ UNCHANGED <<req, cancelled, pending, events, delivered, written, result,
                   models, current_model_size, cancelPc, observedAt>>
    /\ UNCHANGED aux

\* lines 111-114: the callback at the head of the loop body
segment_callback ==
    /\ At("segment_callback")
    /\ calls' = calls
    /\ progress_callback("translating segment", Len(calls))
    /\ pc' = "segment_translate"
    /\ UNCHANGED <<req, cancelled, events, delivered, written, result, loc,
                   models, current_model_size, cancelPc>>
    /\ UNCHANGED aux

\* mutant: a segment whose translation failed is left out of the result
segment_translate_drops_failed ==
    /\ At("segment_translate")
    /\ LET seg == segments[loc.i + 1]
           calling == seg.text # "" /\ strip(seg.text) # ""
       IN /\ calls' = IF calling
                      THEN Append(calls, Call("translator.translate", "segment"))
                      ELSE calls
          /\ \E ok \in (IF calling THEN Outcomes ELSE {FALSE}) :
               loc' = [loc EXCEPT
                          !.acc = IF ok
                                  THEN Append(loc.acc,
                                              [seg EXCEPT !.text = Translated(strip(seg.text),
                                                                              req.target_language)])
                                  ELSE loc.acc,
                          !.faults = IF calling /\ ~ok THEN @ + 1 ELSE @,
                          !.i = loc.i + 1]
          /\ pc' = IF loc.i + 1 < Len(segments) THEN "segment_callback" ELSE "segments_done"
    /\ UNCHANGED <<req, cancelled, pending, events, delivered, written, result,
                   models, current_model_size, cancelPc, observedAt>>
    /\ UNCHANGED aux

\* mutant: a cancel request skips the pause
segment_translate_pause_cancellable ==
    /\ At("segment_translate")
    /\ LET seg == segments[loc.i + 1]
           calling == seg.text # "" /\ strip(seg.text) # ""
           pause == IF (loc.i + 1) % batch_size = 0 /\ ~cancelled THEN 1 ELSE 0
       IN /\ calls' = IF calling
                      THEN Append(calls, Call("translator.translate", "segment"))
                      ELSE calls
          /\ \E ok \in (IF calling THEN Outcomes ELSE {FALSE}) :
               LET translated_text == IF ok THEN Translated(strip(seg.text), req.target_language)
                                      ELSE None
                   translated_segment == IF Truthy(translated_text)
                                         THEN [seg EXCEPT !.text = translated_text]
                                         ELSE seg
               IN loc' = [loc EXCEPT !.acc = Append(loc.acc, translated_segment),
                                     !.pauses = loc.pauses + pause,
                                     !.faults = IF calling /\ ~ok THEN @ + 1 ELSE @,
                                     !.i = loc.i + 1]
          /\ pc' = IF loc.i + 1 < Len(segments) THEN "segment_callback" ELSE "segments_done"
    /\ UNCHANGED <<req, cancelled, pending, events, delivered, written, result,
                   models, current_model_size, cancelPc, observedAt>>
    /\ UNCHANGED aux

\* lines 116-137: copy the segment, translate its stripped text (no callback
\* is passed), keep the original text on failure, pause after a full batch
segment_translate ==
    /\ At("segment_translate")
    /\ LET seg == segments[loc.i + 1]
           calling == seg.text # "" /\ strip(seg.text) # ""
           pause == IF (loc.i + 1) % batch_size = 0 THEN 1 ELSE 0
       IN /\ calls' = IF calling
                      THEN Append(calls, Call("translator.translate", "segment"))
                      ELSE calls
          /\ \E ok \in (IF calling THEN Outcomes ELSE {FALSE}) :
               LET translated_text == IF ok THEN Translated(strip(seg.text), req.target_language)
                                      ELSE None
                   translated_segment == IF Truthy(translated_text)
                                         THEN [seg EXCEPT !.text = translated_text]
                                         ELSE seg
               IN loc' = [loc EXCEPT !.acc = Append(loc.acc, translated_segment),
                                     !.pauses = loc.pauses + pause,
                                     !.faults = IF calling /\ ~ok THEN @ + 1 ELSE @,
                                     !.i = loc.i + 1]
          /\ pc' = IF loc.i + 1 < Len(segments) THEN "segment_callback" ELSE "segments_done"
    /\ UNCHANGED <<req, cancelled, pending, events, delivered, written, result,
                   models, current_model_size, cancelPc, observedAt>>
    /\ UNCHANGED aux

\* lines 139-144
segments_done ==
    /\ At("segments_done")
    /\ calls' = calls
    /\ progress_callback("segments translated", Len(calls))
    /\ loc' = [loc EXCEPT !.translated_segments = SomeSegs(loc.acc)]
    /\ pc' = "translation_ret"
    /\ UNCHANGED <<req, cancelled, events, delivered, written, result,
                   models, current_model_size, cancelPc>>
    /\ UNCHANGED aux

\* lines 151-159
run_translation_ret ==
    /\ At("translation_ret")
    /\ result' = [result EXCEPT !.translation =
                     [some |-> TRUE,
                      text |-> loc.translated_text,
                      summary |-> loc.translated_summary,
                      segments |-> loc.translated_segments]]
    /\ cancel_check("progress_85")
    /\ UNCHANGED <<req, cancelled, pending, calls, written, loc,
                   models, current_model_size, cancelPc, observedAt>>
    /\ UNCHANGED aux

\* line 161
run_progress_85 ==
    /\ At("progress_85")
    /\ update_progress(85)
    /\ pc' = "status_files"
    /\ UNCHANGED <<req, cancelled, events, delivered, calls, written, result, loc,
                   models, current_model_size, cancelPc, observedAt>>
    /\ UNCHANGED aux

----------------------------------------------------------------------------
(* stage 5: output generation *)

\* line 164
run_status_files ==
    /\ At("status_files")
    /\ update_status("creating files")
    /\ pc' = "render"
    /\ UNCHANGED <<req, cancelled, events, delivered, calls, written, result, loc,
                   models, current_model_size, cancelPc, observedAt>>
    /\ UNCHANGED aux

\* mutant: the suffix is left out of the file name
get_output_path_no_suffix(suffix, extension) ==
    InputDir \o "/" \o BaseName \o "." \o extension

\* mutant: a path a previous run has written is not reused
get_output_path_unique(suffix, extension) ==
    LET path == InputDir \o "/" \o BaseName \o suffix \o "." \o extension
    IN IF prev # <<>> /\ path \in Range(prev[1].files)
       THEN InputDir \o "/" \o BaseName \o suffix \o "_1." \o extension
       ELSE path

\* FileHandler.get_output_path: <dir>/<stem><suffix>.<extension>
get_output_path(suffix, extension) ==
    InputDir \o "/" \o BaseName \o suffix \o "." \o extension

\* _create_output_files attempts its variants in this textual order
NumVariants == 8

\* the renderer, the format and the suffix of variant k
VariantRenderer(k) ==
    IF k <= 4 THEN "create_txt" ELSE IF k <= 6 THEN "create_srt" ELSE "create_pdf"

VariantFormat(k) ==
    IF k <= 4 THEN "txt" ELSE IF k <= 6 THEN "srt" ELSE "pdf"

VariantSuffix(k) ==
    CASE k = 1 -> ""
      [] k = 2 -> "_summary"
      [] k = 3 -> "_" \o req.target_language
      [] k = 4 -> "_summary_" \o req.target_language
      [] k = 5 -> ""
      [] k = 6 -> "_" \o req.target_language
      [] k = 7 -> "_transcript"
      [] k = 8 -> "_transcript_" \o req.target_language

VariantPath(k) == get_output_path(VariantSuffix(k), VariantFormat(k))

\* mutant: the original text file is written whatever the formats requested
VariantAttempted_txt_always(k) ==
    /\ k = 1 \/ VariantFormat(k) \in Range(req.output_formats)
    /\ CASE k = 1 -> TRUE
         [] k = 2 -> Truthy(loc.summary_text)
         [] k = 3 -> Truthy(loc.translated_text)
         [] k = 4 -> Truthy(loc.translated_summary)
         [] k = 5 -> TRUE
         [] k = 6 -> TruthySegs(loc.translated_segments)
         [] k = 7 -> TRUE
         [] k = 8 -> TruthySegs(loc.translated_segments)

\* mutant: the translated subtitle file needs the full-text translation too
VariantAttempted_srt_needs_text(k) ==
    /\ VariantFormat(k) \in Range(req.output_formats)
    /\ CASE k = 1 -> TRUE
         [] k = 2 -> Truthy(loc.summary_text)
         [] k = 3 -> Truthy(loc.translated_text)
         [] k = 4 -> Truthy(loc.translated_summary)
         [] k = 5 -> TRUE
         [] k = 6 -> TruthySegs(loc.translated_segments) /\ Truthy(loc.translated_text)
         [] k = 7 -> TRUE
         [] k = 8 -> TruthySegs(loc.translated_segments)

\* the guard _create_output_files puts before the renderer call of variant k
VariantAttempted(k) ==
    /\ VariantFormat(k) \in Range(req.output_formats)
    /\ CASE k = 1 -> TRUE
         [] k = 2 -> Truthy(loc.summary_text)
         [] k = 3 -> Truthy(loc.translated_text)
         [] k = 4 -> Truthy(loc.translated_summary)
         [] k = 5 -> TRUE
         [] k = 6 -> TruthySegs(loc.translated_segments)
         [] k = 7 -> TRUE
         [] k = 8 -> TruthySegs(loc.translated_segments)

\* the data the renderer of variant k is given is empty
VariantEmpty(k) ==
    CASE k = 1 -> transcript_text = ""
      [] k = 2 -> ~Truthy(loc.summary_text)
      [] k = 3 -> ~Truthy(loc.translated_text)
      [] k = 4 -> ~Truthy(loc.translated_summary)
      [] k \in {5, 7} -> Len(segments) = 0
      [] k \in {6, 8} -> ~TruthySegs(loc.translated_segments)

\* mutant: the format groups are generated in the order of the request's
\* format list (k - 1 is the variant generated last, 0 at the start)
NextVariant_by_request(k) ==
    LET Place(f) == CHOOSE i \in 1..Len(req.output_formats) : req.output_formats[i] = f
        Key(j) == IF j = 0 THEN 0 ELSE Place(VariantFormat(j)) * (NumVariants + 1) + j
        later == {j \in 1..NumVariants : VariantAttempted(j) /\ Key(j) > Key(k - 1)}
    IN IF later = {} THEN NumVariants + 1
       ELSE CHOOSE j \in later : \A j2 \in later : Key(j) <= Key(j2)

\* the first variant from k on that is attempted (NumVariants + 1: none)
NextVariant(k) ==
    LET later == {j \in k..NumVariants : VariantAttempted(j)}
    IN IF later = {} THEN NumVariants + 1
       ELSE CHOOSE j \in later : \A j2 \in later : j <= j2

\* _create_output_files: advance to the next attempted variant and enter its
\* renderer (create_txt / create_srt / create_pdf up to the first callback),
\* or return created_files
render_enter ==
    /\ At("render")
    /\ LET k == NextVariant(loc.k)
       IN IF k > NumVariants
          THEN /\ pc' = "check_render"
               /\ loc' = [loc EXCEPT !.k = k]
               /\ UNCHANGED <<calls, pending, observedAt>>
          ELSE /\ calls' = Append(calls, Call(VariantRenderer(k), VariantPath(k)))
               /\ progress_callback("creating file", Len(calls) + 1)
               /\ loc' = [loc EXCEPT !.k = k]
               /\ pc' = "render_write"
    /\ UNCHANGED <<req, cancelled, events, delivered, written, result,
                   models, current_model_size, cancelPc>>
    /\ UNCHANGED aux

\* mutant: a renderer failure ends output generation
render_write_fatal ==
    /\ At("render_write")
    /\ calls' = Append(calls, Call("write", VariantPath(loc.k)))
    /\ \E ok \in Outcomes :
         IF ok
         THEN /\ written' = written \cup {VariantPath(loc.k)}
              /\ progress_callback("file created", Len(calls) + 1)
              /\ loc' = [loc EXCEPT !.created_files = Append(@, VariantPath(loc.k)),
                                    !.k = loc.k + 1]
         ELSE /\ written' = written
              /\ progress_callback("file creation failed", Len(calls) + 1)
              /\ loc' = Fault([loc EXCEPT !.k = NumVariants + 1])
    /\ pc' = "render"
    /\ UNCHANGED <<req, cancelled, events, delivered, result,
                   models, current_model_size, cancelPc>>
    /\ UNCHANGED aux

\* the renderer writes the file and returns True, or faults and returns
\* False; _create_output_files appends the path on True
render_write ==
    /\ At("render_write")
    /\ calls' = Append(calls, Call("write", VariantPath(loc.k)))
    /\ \E ok \in Outcomes :
         IF ok
         THEN /\ written' = written \cup {VariantPath(loc.k)}
              /\ progress_callback("file created", Len(calls) + 1)
              /\ loc' = [loc EXCEPT !.created_files = Append(@, VariantPath(loc.k)),
                                    !.k = loc.k + 1]
         ELSE /\ written' = written
              /\ progress_callback("file creation failed", Len(calls) + 1)
              /\ loc' = Fault([loc EXCEPT !.k = loc.k + 1])
    /\ pc' = "render"
    /\ UNCHANGED <<req, cancelled, events, delivered, result,
                   models, current_model_size, cancelPc>>
    /\ UNCHANGED aux

\* mutant: no cancellation check after output generation
run_check_render_missing ==
    /\ At("check_render")
    /\ result' = [result EXCEPT !.files = loc.created_files]
    /\ pc' = "progress_100"
    /\ UNCHANGED <<req, cancelled, pending, events, delivered, calls, written, loc,
                   models, current_model_size, cancelPc, observedAt>>
    /\ UNCHANGED aux

\* mutant: a cancelled run removes the files it has written
run_check_render_rollback ==
    /\ At("check_render")
    /\ result' = IF is_cancelled THEN result
                 ELSE [result EXCEPT !.files = loc.created_files]
    /\ written' = IF is_cancelled THEN {} ELSE written
    /\ cancel_check("progress_100")
    /\ UNCHANGED <<req, cancelled, pending, calls, loc,
                   models, current_model_size, cancelPc, observedAt>>
    /\ UNCHANGED aux

\* lines 175-179
run_check_render ==
    /\ At("check_render")
    /\ result' = IF is_cancelled THEN result
                 ELSE [result EXCEPT !.files = loc.created_files]
    /\ cancel_check("progress_100")
    /\ UNCHANGED <<req, cancelled, pending, calls, written, loc,
                   models, current_model_size, cancelPc, observedAt>>
    /\ UNCHANGED aux

\* line 181
run_progress_100 ==
    /\ At("progress_100")
    /\ update_progress(100)
    /\ pc' = "status_done"
    /\ UNCHANGED <<req, cancelled, events, delivered, calls, written, result, loc,
                   models, current_model_size, cancelPc, observedAt>>
    /\ UNCHANGED aux

\* line 182
run_status_done ==
    /\ At("status_done")
    /\ update_status("done")
    /\ pc' = "fin_success"
    /\ UNCHANGED <<req, cancelled, events, delivered, calls, written, result, loc,
                   models, current_model_size, cancelPc, observedAt>>
    /\ UNCHANGED aux

\* line 185
run_fin_success ==
    /\ At("fin_success")
    /\ result' = result
    /\ emit_finished(TRUE, "result")
    /\ pc' = "done"
    /\ UNCHANGED <<req, cancelled, pending, calls, written, loc,
                   models, current_model_size, cancelPc, observedAt>>
    /\ UNCHANGED aux

\* mutant: the handler reports the error but emits no completion
run_except_no_completion ==
    /\ At("except")
    /\ emit_error(TaskFailed(loc.exc))
    /\ pc' = "done"
    /\ UNCHANGED <<req, cancelled, pending, delivered, calls, written, result, loc,
                   models, current_model_size, cancelPc, observedAt>>
    /\ UNCHANGED aux

\* lines 187-189: the outer handler of run()
run_except ==
    /\ At("except")
    /\ emit_error(TaskFailed(loc.exc))
    /\ pc' = "fin_except"
    /\ UNCHANGED <<req, cancelled, pending, delivered, calls, written, result, loc,
                   models, current_model_size, cancelPc, observedAt>>
    /\ UNCHANGED aux

\* mutant: the handler returns without emitting the completion
run_fin_except_lost ==
    /\ At("fin_except")
    /\ pc' = "done"
    /\ UNCHANGED <<req, cancelled, pending, events, delivered, calls, written, result, loc,
                   models, current_model_size, cancelPc, observedAt>>
    /\ UNCHANGED aux

\* line 190
run_fin_except ==
    /\ At("fin_except")
    /\ emit_finished(FALSE, None)
    /\ pc' = "done"
    /\ UNCHANGED <<req, cancelled, pending, calls, written, result, loc,
                   models, current_model_size, cancelPc, observedAt>>
    /\ UNCHANGED aux

----------------------------------------------------------------------------
(* FileHandler: format_time on Python floats *)

\* A time is a Python float (IEEE 754 binary64): 53 significant bits.  A
\* float of at least 1.0 has at most 52 fraction bits; it is held as its
\* integer part and its fraction in four 13-bit limbs, most significant first.
Base == 8192

RECURSIVE Pow2(_)
Pow2(n) == IF n = 0 THEN 1 ELSE 2 * Pow2(n - 1)

\* the binary exponent of an integer part: 2^e <= n < 2^(e+1)
Exponent(n) ==
    IF n = 0 THEN 0 ELSE CHOOSE e \in 0..25 : Pow2(e) <= n /\ n < 2 * Pow2(e)

\* round to nearest, ties to even: the low `drop` fraction bits are dropped;
\* `tail` tells how what lies below the last limb compares with half its unit
RoundToNearest(n, f, drop, tail) ==
    LET L == f[3] * Base + f[4]
        unit == Pow2(drop)
        low == L % unit
        kept == L - low
        cmp == IF drop = 0 THEN tail
               ELSE IF 2 * low > unit THEN "above"
               ELSE IF 2 * low < unit
                    THEN (IF low = 0 /\ tail = "zero" THEN "zero" ELSE "below")
               ELSE IF tail = "zero" THEN "half" ELSE "above"
        odd == (kept \div unit) % 2 = 1
        up == cmp = "above" \/ (cmp = "half" /\ odd)
        L2 == kept + (IF up THEN unit ELSE 0)
        l2 == L2 % (Base * Base)
        s2 == f[2] + L2 \div (Base * Base)
        s1 == f[1] + s2 \div Base
    IN [int |-> n + s1 \div Base,
        frac |-> <<s1 % Base, s2 % Base, l2 \div Base, l2 % Base>>]

\* the float a decimal time n.mmm denotes (a segment's "start" or "end"):
\* the binary64 value nearest to it
float(n, ms) ==
    LET r1 == ms * Base
        r2 == (r1 % 1000) * Base
        r3 == (r2 % 1000) * Base
        r4 == (r3 % 1000) * Base
        m == r4 % 1000
        tail == IF m = 0 THEN "zero"
                ELSE IF 2 * m < 1000 THEN "below"
                ELSE IF 2 * m = 1000 THEN "half"
                ELSE "above"
    IN RoundToNearest(n, <<r1 \div 1000, r2 \div 1000, r3 \div 1000, r4 \div 1000>>,
                      Exponent(n), tail)

\* (secs - int(secs)) * 1000: the subtraction is exact, the product is
\* rounded to a float
FractionTimes1000(f) ==
    LET p4 == f[4] * 1000
        p3 == f[3] * 1000 + p4 \div Base
        p2 == f[2] * 1000 + p3 \div Base
        p1 == f[1] * 1000 + p2 \div Base
        n == p1 \div Base
    IN RoundToNearest(n, <<p1 % Base, p2 % Base, p3 % Base, p4 % Base>>,
                      Exponent(n), "zero")

\* f"{n:02d}" and f"{n:03d}"
Pad2(n) == IF n < 10 THEN "0" \o ToString(n) ELSE ToString(n)
Pad3(n) == IF n < 10 THEN "00" \o ToString(n)
           ELSE IF n < 100 THEN "0" \o ToString(n)
           ELSE ToString(n)

\* format_time(seconds).  On a float below 2^26 the quotients seconds / 3600
\* and (seconds % 3600) / 60 round to no integer they lie below, and % is
\* exact, so the three int() take the integer part apart; the milliseconds
\* are int() of the rounded product
format_time(seconds) ==
    LET hours == seconds.int \div 3600
        minutes == (seconds.int % 3600) \div 60
        secs == seconds.int % 60
        millisecs == FractionTimes1000(seconds.frac).int
    IN Pad2(hours) \o ":" \o Pad2(minutes) \o ":" \o Pad2(secs) \o "," \o Pad3(millisecs)

\* the decimal times handed to format_time: whole seconds and milliseconds
WholeSeconds == {0, 1, 2, 5, 59, 61, 3599, 3661, 86399, 90000}
Milliseconds == {0, 1, 250, 500, 998, 999}

\* a time below one second other than 0.0 and 0.5 has more than 52 fraction bits
DecimalTimes ==
    {t \in [n : WholeSeconds, ms : Milliseconds] : t.n = 0 => t.ms \in {0, 500}}

\* what a step of the FileHandler leaves alone
run_state == <<req, cancelled, pending, events, delivered, calls, written, result,
               loc, models, current_model_size, cancelPc, observedAt, prev, start_button>>

\* a caller hands a time to format_time
format_time_call ==
    /\ pc = "file_handler"
    /\ \E t \in DecimalTimes :
           input' = [fn |-> "format_time", t |-> t, seconds |-> float(t.n, t.ms)]
    /\ pc' = "format_time"
    /\ UNCHANGED <<output, run_state>>

format_time_return ==
    /\ pc = "format_time"
    /\ output' = format_time(input.seconds)
    /\ pc' = "returned"
    /\ UNCHANGED <<input, run_state>>

----------------------------------------------------------------------------
(* FileHandler: create_srt *)

\* the segments handed to create_srt: segment i runs from CueTime(i - 1) to
\* CueTime(i) and says Words(i); the first two are {0.0, 2.5} and {2.5, 5.999}
CueTime(i) ==
    IF i = 0 THEN float(0, 0)
    ELSE IF i = 1 THEN float(2, 500)
    ELSE float(3 * i - 1, 999)

TimedSegments(n) ==
    [i \in 1..n |-> [start |-> CueTime(i - 1), end |-> CueTime(i), text |-> Words(i)]]

\* in time order, or the other way round: create_srt does not sort
TimedSegLists ==
    {TimedSegments(n) : n \in 0..MaxSegs} \cup {Reverse(TimedSegments(MaxSegs))}

SrtStart == "creating SRT file"
SrtDone == "SRT file created"
SrtFailed == "SRT file failed"

\* a caller hands a segment list to create_srt
create_srt_call ==
    /\ pc = "file_handler"
    /\ \E q \in TimedSegLists : input' = [fn |-> "create_srt", segments |-> q]
    /\ output' = [status |-> <<>>, opened |-> FALSE, file |-> <<>>, i |-> 0,
                  faulted |-> FALSE, ret |-> FALSE]
    /\ pc' = "srt_status"
    /\ UNCHANGED run_state

\* lines 52-53
create_srt_status ==
    /\ pc = "srt_status"
    /\ output' = [output EXCEPT !.status = Append(@, SrtStart)]
    /\ pc' = "srt_open"
    /\ UNCHANGED <<input, run_state>>

\* line 57: open(output_file, "w") truncates the file, or raises
create_srt_open ==
    /\ pc = "srt_open"
    /\ \/ /\ output' = [output EXCEPT !.opened = TRUE, !.i = 1]
          /\ pc' = "srt_loop"
       \/ /\ output' = [output EXCEPT !.faulted = TRUE]
          /\ pc' = "srt_except"
    /\ UNCHANGED <<input, run_state>>

\* line 58: the next segment, or the end of the with block
create_srt_loop ==
    /\ pc = "srt_loop"
    /\ pc' = IF output.i <= Len(input.segments) THEN "srt_index" ELSE "srt_done"
    /\ UNCHANGED <<input, output, run_state>>

\* mutant: the cue blocks are numbered from 0
create_srt_index_from_zero ==
    /\ pc = "srt_index"
    /\ \/ /\ output' = [output EXCEPT !.file = Append(@, ToString(output.i - 1))]
          /\ pc' = "srt_header"
       \/ /\ output' = [output EXCEPT !.faulted = TRUE]
          /\ pc' = "srt_except"
    /\ UNCHANGED <<input, run_state>>

\* line 59: f.write(f"{i+1}\n"), or the write raises
create_srt_index ==
    /\ pc = "srt_index"
    /\ \/ /\ output' = [output EXCEPT !.file = Append(@, ToString(output.i))]
          /\ pc' = "srt_header"
       \/ /\ output' = [output EXCEPT !.faulted = TRUE]
          /\ pc' = "srt_except"
    /\ UNCHANGED <<input, run_state>>

\* lines 61-63
create_srt_header ==
    /\ pc = "srt_header"
    /\ LET segment == input.segments[output.i]
           start_time == format_time(segment.start)
           end_time == format_time(segment.end)
       IN \/ /\ output' = [output EXCEPT
                               !.file = Append(@, start_time \o " --> " \o end_time)]
             /\ pc' = "srt_text"
          \/ /\ output' = [output EXCEPT !.faulted = TRUE]
             /\ pc' = "srt_except"
    /\ UNCHANGED <<input, run_state>>

\* lines 65-66: f.write(f"{text}\n\n") is the text line and the blank line
create_srt_text ==
    /\ pc = "srt_text"
    /\ LET text == strip(input.segments[output.i].text)
       IN \/ /\ output' = [output EXCEPT !.file = @ \o <<text, "">>, !.i = @ + 1]
             /\ pc' = "srt_loop"
          \/ /\ output' = [output EXCEPT !.faulted = TRUE]
             /\ pc' = "srt_except"
    /\ UNCHANGED <<input, run_state>>

\* lines 68-73
create_srt_done ==
    /\ pc = "srt_done"
    /\ output' = [output EXCEPT !.status = Append(@, SrtDone), !.ret = TRUE]
    /\ pc' = "srt_returned"
    /\ UNCHANGED <<input, run_state>>

\* lines 75-79
create_srt_except ==
    /\ pc = "srt_except"
    /\ output' = [output EXCEPT !.status = Append(@, SrtFailed), !.ret = FALSE]
    /\ pc' = "srt_returned"
    /\ UNCHANGED <<input, run_state>>

----------------------------------------------------------------------------
(* FileHandler: create_pdf *)

\* reportlab.lib.pagesizes.letter, in points (width, height)
letter == <<612, 792>>

\* lines 177-181
top_margin == letter[2] - 72
bottom_margin == 72
line_height == 15

\* The documents given to create_pdf. A text counts by the number of lines
\* _wrap_text makes of it (none for a blank text): summary is None or the
\* line count of the summary, segments the line counts of the segment texts.
PdfDocuments ==
    LET Repeat(p, n) == [i \in 1..n |-> p[((i - 1) % Len(p)) + 1]]
        short == {Repeat(p, n) : p \in {<<0>>, <<1>>, <<2>>, <<1, 3>>}, n \in {0, 1, 2, 3, 13, 26}}
        long == {<<44>>, <<2, 43>>, <<44>> \o Repeat(<<1>>, 26)}
    IN [summary : {[some |-> FALSE, lines |-> 0]}
                      \cup {[some |-> TRUE, lines |-> n] : n \in {0, 1, 39, 40, 41, 85}},
        segments : short \cup long]

\* c.drawString at the current position, after the page break test of the
\* code where it has one: `if y_position < limit: c.showPage(); y_position =
\* top_margin`. y is kept in half points, which is exact for the multiples of
\* line_height * 0.5 the code computes; before is the position tested.
drawString(o, kind, limit) ==
    LET brk == o.y < limit
        page == IF brk THEN o.page + 1 ELSE o.page
        y == IF brk THEN 2 * top_margin ELSE o.y
    IN [o EXCEPT !.page = page,
                 !.y = y,
                 !.drawn = Append(@, [kind |-> kind, seg |-> o.i, line |-> o.j,
                                      page |-> page, y |-> y, before |-> o.y])]

\* a caller hands a document to create_pdf; lines 171-180
create_pdf_call ==
    /\ pc = "file_handler"
    /\ \E doc \in PdfDocuments :
           input' = [fn |-> "create_pdf", summary |-> doc.summary, segments |-> doc.segments]
    /\ output' = [page |-> 1, y |-> 2 * top_margin, drawn |-> <<>>, i |-> 0, j |-> 0,
                  ret |-> FALSE]
    /\ pc' = "pdf_title"
    /\ UNCHANGED run_state

\* lines 183-195: the title and, with a summary, its heading; neither has a
\* page break test
create_pdf_title ==
    /\ pc = "pdf_title"
    /\ LET o == drawString(output, "title", 0)
           titled == [o EXCEPT !.y = @ - 2 * (line_height * 2)]
       IN IF input.summary.some
          THEN /\ output' = [drawString(titled, "summary heading", 0)
                                EXCEPT !.y = @ - 3 * line_height, !.j = 1]
               /\ pc' = "pdf_summary"
          ELSE /\ output' = titled
               /\ pc' = "pdf_detail"
    /\ UNCHANGED <<input, run_state>>

\* lines 196-205: one line of the summary, or the gap after the last one
create_pdf_summary_line ==
    /\ pc = "pdf_summary"
    /\ IF output.j <= input.summary.lines
       THEN /\ output' = [drawString(output, "summary", 2 * bottom_margin)
                              EXCEPT !.y = @ - 2 * line_height, !.j = @ + 1]
            /\ pc' = "pdf_summary"
       ELSE /\ output' = [output EXCEPT !.y = @ - 2 * line_height, !.j = 0]
            /\ pc' = "pdf_detail"
    /\ UNCHANGED <<input, run_state>>

\* lines 208-215: the heading of the segments
create_pdf_detail ==
    /\ pc = "pdf_detail"
    /\ output' = [drawString(output, "detail heading", 2 * bottom_margin)
                      EXCEPT !.y = @ - 3 * line_height, !.i = 1]
    /\ pc' = "pdf_segment"
    /\ UNCHANGED <<input, run_state>>

\* mutant: the page break before a segment is made at the bottom margin only
create_pdf_segment_late_break ==
    /\ pc = "pdf_segment"
    /\ IF output.i <= Len(input.segments)
       THEN /\ output' = [drawString(output, "timestamp", 2 * bottom_margin)
                              EXCEPT !.y = @ - 2 * line_height, !.j = 1]
            /\ pc' = "pdf_text"
       ELSE /\ output' = output
            /\ pc' = "pdf_save"
    /\ UNCHANGED <<input, run_state>>

\* lines 218-231: the page break test of a segment and its timestamp line
create_pdf_segment ==
    /\ pc = "pdf_segment"
    /\ IF output.i <= Len(input.segments)
       THEN /\ output' = [drawString(output, "timestamp", 2 * (bottom_margin + line_height * 3))
                              EXCEPT !.y = @ - 2 * line_height, !.j = 1]
            /\ pc' = "pdf_text"
       ELSE /\ output' = output
            /\ pc' = "pdf_save"
    /\ UNCHANGED <<input, run_state>>

\* lines 235-246: one line of the segment text, or the gap after the last one
create_pdf_text_line ==
    /\ pc = "pdf_text"
    /\ IF output.j <= input.segments[output.i]
       THEN /\ output' = [drawString(output, "text", 2 * bottom_margin)
                              EXCEPT !.y = @ - 2 * line_height, !.j = @ + 1]
            /\ pc' = "pdf_text"
       ELSE /\ output' = [output EXCEPT !.y = @ - line_height, !.i = @ + 1, !.j = 0]
            /\ pc' = "pdf_segment"
    /\ UNCHANGED <<input, run_state>>

\* lines 248-261: c.save() writes the file and create_pdf returns True, or it
\* raises and create_pdf returns False
create_pdf_save ==
    /\ pc = "pdf_save"
    /\ \E ok \in BOOLEAN : output' = [output EXCEPT !.ret = ok]
    /\ pc' = "pdf_returned"
    /\ UNCHANGED <<input, run_state>>

----------------------------------------------------------------------------
(* TextSummarizer: summarize and its sentence count *)

\* The calls of summarize. text is the sequence of its sentences (none for a
\* blank text); ratio is the percentage of the spin box (10 to 90), which the
\* options widget divides by 100.0. With fewer than ten sentences the double
\* sentence_count * ratio is exact (25, 50, 75) or at least a hundredth away
\* from an integer (10, 90), so int() of it is the integer quotient below.
SummarizeCalls ==
    [text : {[i \in 1..n |-> i] : n \in 0..9},
     ratio : {10, 25, 50, 75, 90},
     min_sentences : {1, 2},
     max_sentences : {[some |-> FALSE, val |-> 0]} \cup {[some |-> TRUE, val |-> v] : v \in {1, 3}}]

\* lines 73-76
summary_sentence_count(sentence_count, ratio, min_sentences, max_sentences) ==
    LET count == Max(min_sentences, (sentence_count * ratio) \div 100)
    IN IF max_sentences.some THEN Min(count, max_sentences.val) ELSE count

\* lines 53-81: a blank text returns None, a text of at most min_sentences
\* sentences is returned as it is, any other text goes to the LSA summarizer
summarize_count ==
    /\ pc = "summarizer"
    /\ \E c \in SummarizeCalls :
         /\ input' = [fn |-> "summarize"] @@ c
         /\ LET sentence_count == Len(c.text)
            IN IF sentence_count = 0
               THEN /\ output' = [count |-> 0, ret |-> [some |-> FALSE, text |-> <<>>]]
                    /\ pc' = "summarized"
               ELSE IF sentence_count <= c.min_sentences
               THEN /\ output' = [count |-> 0, ret |-> [some |-> TRUE, text |-> c.text]]
                    /\ pc' = "summarized"
               ELSE /\ output' = [count |-> summary_sentence_count(sentence_count, c.ratio,
                                                                   c.min_sentences, c.max_sentences),
                                  ret |-> [some |-> FALSE, text |-> <<>>]]
                    /\ pc' = "summarize_select"
    /\ UNCHANGED run_state

\* lines 84-101: the LSA summarizer returns the sentences it rates best, in
\* the order of the text (none for a text without rated words), and summarize
\* joins them; a fault of the parser or the summarizer returns None
summarize_select ==
    /\ pc = "summarize_select"
    /\ \/ \E best \in {S \in SUBSET Range(input.text) : Cardinality(S) \in {0, output.count}} :
            LET chosen(sentence) == sentence \in best
            IN output' = [output EXCEPT !.ret = [some |-> TRUE,
                                                 text |-> SelectSeq(input.text, chosen)]]
       \/ output' = [output EXCEPT !.ret = [some |-> FALSE, text |-> <<>>]]
    /\ pc' = "summarized"
    /\ UNCHANGED <<input, run_state>>

----------------------------------------------------------------------------
(* WhisperProcessor: the model cache over many calls *)

\* WhisperProcessor.get_instance().load_model(m, ...), as run() calls it
\* (lines 58-60), for any identifier; loaded is the history of the
\* identifiers the loader has loaded since the cache was last cleared, and
\* selected tells whether load_model has returned true since get_instance()
\* was last called
get_instance_load_model ==
    /\ pc = "processor"
    /\ \E m \in ModelSizes :
           /\ req' = [NoRequest EXCEPT !.model_size = m]
           /\ input' = [fn |-> "load_model", model_size |-> m]
    /\ calls' = <<>>
    /\ events' = <<>>
    /\ output' = [output EXCEPT !.selected = FALSE]
    /\ pc' = "load_model"
    /\ UNCHANGED <<cancelled, pending, delivered, written, result, loc, models,
                   current_model_size, cancelPc, observedAt, prev, start_button>>

\* load_model returns to its caller
load_model_return ==
    /\ At("load_ret")
    /\ output' = [loaded |-> IF loc.ret_ok /\ Call("whisper.load_model", input.model_size) \in Range(calls)
                             THEN output.loaded \cup {input.model_size}
                             ELSE output.loaded,
                  selected |-> loc.ret_ok]
    /\ pc' = "processor"
    /\ UNCHANGED <<req, cancelled, pending, events, delivered, calls, written, result, loc,
                   models, current_model_size, cancelPc, observedAt, input, prev,
                   start_button>>

\* mutant: __init__ leaves the current model as it is
get_instance_keeps_current ==
    /\ pc = "processor"
    /\ input' = [fn |-> "get_instance"]
    /\ output' = [output EXCEPT !.selected = FALSE]
    /\ UNCHANGED <<pc, req, cancelled, pending, events, delivered, calls, written, result,
                   loc, models, current_model_size, cancelPc, observedAt, prev, start_button>>

\* WhisperProcessor.get_instance() on its own: cls() returns the one instance
\* (__new__, lines 17-20) and runs __init__ on it again (lines 22-24), which
\* resets the current model; _models is a class attribute and is not touched
get_instance ==
    /\ pc = "processor"
    /\ input' = [fn |-> "get_instance"]
    /\ current_model_size' = None
    /\ output' = [output EXCEPT !.selected = FALSE]
    /\ UNCHANGED <<pc, req, cancelled, pending, events, delivered, calls, written, result,
                   loc, models, cancelPc, observedAt, prev, start_button>>

\* transcribe(file) is called on the instance (transcribe_enter and
\* transcribe_model are its body)
transcribe_call ==
    /\ pc = "processor"
    /\ input' = [fn |-> "transcribe"]
    /\ calls' = <<>>
    /\ events' = <<>>
    /\ loc' = InitLoc
    /\ pc' = "transcribe"
    /\ UNCHANGED <<req, cancelled, pending, delivered, written, result, models,
                   current_model_size, cancelPc, observedAt, output, prev, start_button>>

\* transcribe returns to its caller
transcribe_return ==
    /\ At("transcribe_ret")
    /\ pc' = "processor"
    /\ UNCHANGED <<req, cancelled, pending, events, delivered, calls, written, result, loc,
                   models, current_model_size, cancelPc, observedAt, input, output, prev,
                   start_button>>

\* clear_cache(): lines 141-143
clear_cache ==
    /\ pc = "processor"
    /\ models' = {}
    /\ current_model_size' = None
    /\ output' = [output EXCEPT !.loaded = {}]
    /\ UNCHANGED <<pc, req, cancelled, pending, events, delivered, calls, written, result,
                   loc, cancelPc, observedAt, input, prev, start_button>>

----------------------------------------------------------------------------
(* The system *)

Init ==
    /\ pc = "idle"
    /\ req = NoRequest
    /\ cancelled = FALSE
    /\ pending = <<>>
    /\ events = <<>>
    /\ delivered = <<>>
    /\ calls = <<>>
    /\ written = {}
    /\ result = InitResult
    /\ loc = InitLoc
    /\ models = {}
    /\ current_model_size = None
    /\ cancelPc = ""
    /\ observedAt = -1
    /\ input = <<>>
    /\ output = <<>>
    /\ prev = <<>>
    /\ start_button = TRUE

Next ==
    \/ _start_conversion
    \/ cancel
    \/ Emit
    \/ run_progress_0
    \/ run_status_load
    \/ load_model_lookup
    \/ load_model_fetch
    \/ run_load_test
    \/ run_fin_load_failed
    \/ run_check_load
    \/ run_progress_10
    \/ run_status_transcribe
    \/ transcribe_enter
    \/ transcribe_model
    \/ run_transcribe_test
    \/ run_fin_transcribe_failed
    \/ run_check_transcribe
    \/ run_progress_60
    \/ run_summary
    \/ run_summarizer_new
    \/ summarize_enter
    \/ summarize_tokenize
    \/ summarize_lsa
    \/ run_summary_ret
    \/ run_progress_70
    \/ run_translation
    \/ run_translator_new
    \/ \E w \in {"text", "summary"} : translate_text_enter(w)
    \/ \E w \in {"text", "summary"} : translate_text_api(w)
    \/ translate_segments_enter
    \/ segment_callback
    \/ segment_translate
    \/ segments_done
    \/ run_translation_ret
    \/ run_progress_85
    \/ run_status_files
    \/ render_enter
    \/ render_write
    \/ run_check_render
    \/ run_progress_100
    \/ run_status_done
    \/ run_fin_success
    \/ run_except
    \/ run_fin_except

Spec == Init /\ [][Next]_vars

\* a step of the worker thread: any step but the UI thread's
\* _start_conversion and cancel()
WorkerStep == Next /\ pc # "idle" /\ cancelled' = cancelled

\* QThread.start(): the worker thread runs run() to its end whenever every
\* collaborator call returns, whatever the UI thread does meanwhile
FairSpec == Spec /\ WF_vars(WorkerStep)

\* the FileHandler functions, each called on its own with arguments drawn
\* from bounded sets
FileInit ==
    /\ pc = "file_handler"
    /\ req = NoRequest
    /\ cancelled = FALSE
    /\ pending = <<>>
    /\ events = <<>>
    /\ delivered = <<>>
    /\ calls = <<>>
    /\ written = {}
    /\ result = InitResult
    /\ loc = InitLoc
    /\ models = {}
    /\ current_model_size = None
    /\ cancelPc = ""
    /\ observedAt = -1
    /\ input = <<>>
    /\ output = <<>>
    /\ prev = <<>>
    /\ start_button = TRUE

FileNext ==
    \/ format_time_call
    \/ format_time_return
    \/ create_srt_call
    \/ create_srt_status
    \/ create_srt_open
    \/ create_srt_loop
    \/ create_srt_index
    \/ create_srt_header
    \/ create_srt_text
    \/ create_srt_done
    \/ create_srt_except
    \/ create_pdf_call
    \/ create_pdf_title
    \/ create_pdf_summary_line
    \/ create_pdf_detail
    \/ create_pdf_segment
    \/ create_pdf_text_line
    \/ create_pdf_save

FileSpec == FileInit /\ [][FileNext]_vars

\* the process-wide WhisperProcessor, called again and again
CacheInit ==
    /\ pc = "processor"
    /\ req = NoRequest
    /\ cancelled = FALSE
    /\ pending = <<>>
    /\ events = <<>>
    /\ delivered = <<>>
    /\ calls = <<>>
    /\ written = {}
    /\ result = InitResult
    /\ loc = InitLoc
    /\ models = {}
    /\ current_model_size = None
    /\ cancelPc = ""
    /\ observedAt = -1
    /\ input = <<>>
    /\ output = [loaded |-> {}, selected |-> FALSE]
    /\ prev = <<>>
    /\ start_button = TRUE

CacheNext ==
    \/ get_instance_load_model
    \/ load_model_lookup
    \/ Emit
    \/ load_model_fetch
    \/ load_model_return
    \/ clear_cache
    \/ get_instance
    \/ transcribe_call
    \/ transcribe_enter
    \/ transcribe_model
    \/ transcribe_return

CacheSpec == CacheInit /\ [][CacheNext]_vars

\* translate_segments on its own, as run() calls it (lines 145-149, default
\* batch_size), on transcripts of up to two full batches of segments
BatchLengths == {0, 1, batch_size - 1, batch_size, batch_size + 1, 2 * batch_size}

PauseInit ==
    /\ pc = "translate_segments"
    /\ req = [NoRequest EXCEPT !.enable_translation = TRUE]
    /\ cancelled = FALSE
    /\ pending = <<>>
    /\ events = <<>>
    /\ delivered = <<>>
    /\ calls = <<>>
    /\ written = {}
    /\ result = InitResult
    /\ \E n \in BatchLengths :
           loc = [InitLoc EXCEPT !.transcription_result = Transcript(SegTexts(n, FALSE))]
    /\ models = {}
    /\ current_model_size = None
    /\ cancelPc = ""
    /\ observedAt = -1
    /\ input = <<>>
    /\ output = <<>>
    /\ prev = <<>>
    /\ start_button = FALSE

PauseNext ==
    \/ translate_segments_enter
    \/ segment_callback
    \/ segment_translate
    \/ segments_done
    \/ Emit
    \/ cancel

PauseSpec == PauseInit /\ [][PauseNext]_vars

\* TextSummarizer.summarize called on its own
SummarizeInit ==
    /\ pc = "summarizer"
    /\ req = NoRequest
    /\ cancelled = FALSE
    /\ pending = <<>>
    /\ events = <<>>
    /\ delivered = <<>>
    /\ calls = <<>>
    /\ written = {}
    /\ result = InitResult
    /\ loc = InitLoc
    /\ models = {}
    /\ current_model_size = None
    /\ cancelPc = ""
    /\ observedAt = -1
    /\ input = <<>>
    /\ output = <<>>
    /\ prev = <<>>
    /\ start_button = TRUE

SummarizeNext ==
    \/ summarize_count
    \/ summarize_select

SummarizeSpec == SummarizeInit /\ [][SummarizeNext]_vars

TypeOK ==
    /\ cancelled \in BOOLEAN
    /\ Len(pending) <= 1
    /\ models \subseteq ModelSizes

----------------------------------------------------------------------------
(* Observations on a run *)

Last(q) == q[Len(q)]

FinishedAt == {i \in 1..Len(events) : events[i].k = "finished"}
ErrorsAt == {i \in 1..Len(events) : events[i].k = "error"}

CancelCompletion == Finished(FALSE, CancelMsg)
FailureCompletion == Finished(FALSE, None)
SuccessCompletion == Finished(TRUE, "result")

\* the run has ended with completion e
EndedWith(e) == pc = "done" /\ events # <<>> /\ Last(events) = e

\* the stage a logged call belongs to
StageOf(fn) ==
    CASE fn \in {"load_model", "whisper.load_model"} -> 1
      [] fn \in {"transcribe", "model.transcribe"} -> 2
      [] fn \in {"summarize", "sent_tokenize", "LsaSummarizer"} -> 3
      [] fn \in {"translate_text", "translate_segments", "translator.translate"} -> 4
      [] fn \in {"create_txt", "create_srt", "create_pdf", "write"} -> 5

CallsOfStage(n) == {i \in 1..Len(calls) : StageOf(calls[i].fn) = n}
CallsTo(fn) == {i \in 1..Len(calls) : calls[i].fn = fn}

NoRendererInvoked == CallsOfStage(5) = {} /\ written = {}

\* load_model returned False / transcribe returned None
LoadFailed ==
    /\ pc \in {"fin_load_failed", "done"}
    /\ ~loc.ret_ok
TranscribeFailed ==
    /\ pc \in {"fin_transcribe_failed", "done"}
    /\ CallsTo("transcribe") # {}
    /\ ~loc.transcription_result.some
\* the outer handler of run() caught an exception
ExceptionCaught == \E i \in ErrorsAt : \E e \in ExcMessages : events[i] = Error(TaskFailed(e))

IsProgress(e) == e.k = "progress"
ProgressEvents == SelectSeq(events, IsProgress)
ProgressValues == [i \in 1..Len(ProgressEvents) |-> ProgressEvents[i].n]

----------------------------------------------------------------------------
(* Claims *)

\* C1: a run emits exactly one completion (finished) event on every path, and
\* no progress, status or error event after it: at any time there is at most
\* one finished event, it is the last event with nothing left to emit and the
\* run is over, and a run that is over has emitted it.
C1_ExactlyOneCompletion ==
    /\ Cardinality(FinishedAt) <= 1
    /\ \A i \in FinishedAt : i = Len(events) /\ pending = <<>> /\ pc = "done"
    /\ pc = "done" => FinishedAt # {}

\* a run ended by the outer exception handler: error, then the one completion
C1_Witness ==
    /\ pc = "done"
    /\ ExceptionCaught
    /\ Len(events) >= 3
    /\ Last(events) = FailureCompletion
    /\ events[Len(events) - 1] = Error(TaskFailed(loc.exc))

----------------------------------------------------------------------------
(* Where cancel() found the run *)

\* stage 1 up to its cancellation check, and stage 2 up to the transcribe call
BeforeTranscribeCall ==
    {"start", "status_load", "load_model", "load_fetch", "load_ret",
     "check_load", "progress_10", "status_transcribe", "transcribe"}

\* after progress 60 was reported (stage 2 complete), before stage 5 begins
\* at line 161
AfterStage2BeforeStage5 ==
    {"summary", "summarizer_new", "summarize", "summarize_tokenize",
     "summarize_lsa", "summary_ret", "progress_70", "translation",
     "translator_new", "translate_text", "translate_text_api",
     "translate_summary", "translate_summary_api", "translate_segments",
     "segment_callback", "segment_translate", "segments_done",
     "translation_ret", "progress_85"}

\* after the last cancellation check of run() (line 175) was evaluated
AfterLastCheck == {"progress_100", "status_done", "fin_success", "done"}

\* the statements of stage n, from its first statement to the statement that
\* ends it (the cancellation check, where the stage has one)
StageRegion(n) ==
    CASE n = 1 -> {"start", "status_load", "load_model", "load_fetch", "load_ret",
                   "check_load"}
      [] n = 2 -> {"status_transcribe", "transcribe", "transcribe_model",
                   "transcribe_ret", "check_transcribe"}
      [] n = 3 -> {"summary", "summarizer_new", "summarize", "summarize_tokenize",
                   "summarize_lsa", "summary_ret"}
      [] n = 4 -> {"translation", "translator_new", "translate_text",
                   "translate_text_api", "translate_summary",
                   "translate_summary_api", "translate_segments",
                   "segment_callback", "segment_translate", "segments_done",
                   "translation_ret"}

\* the worker is inside a collaborator, past its first callback
InsideCollaborator ==
    {"load_fetch", "transcribe_model", "summarize_tokenize", "summarize_lsa",
     "translate_text_api", "translate_summary_api", "segment_callback",
     "segment_translate", "segments_done", "render_write"}

----------------------------------------------------------------------------

\* C2 (as claimed): if cancel() is called after stage 2 has completed and
\* before output generation begins, no renderer is invoked in the run and
\* (unless a constructor raised into the outer handler) the run ends with the
\* cancellation completion, whatever the toggles.
C2_CancelBetweenStage2And5 ==
    cancelPc \in AfterStage2BeforeStage5 =>
        /\ NoRendererInvoked
        /\ (pc = "done" /\ ~ExceptionCaught) => Last(events) = CancelCompletion

C4_CancelNeverLost ==
    (cancelPc # "" /\ cancelPc \notin AfterLastCheck) =>
        /\ \A i \in FinishedAt : ~events[i].ok
        /\ (pc = "done" /\ ~LoadFailed /\ ~TranscribeFailed /\ ~ExceptionCaught)
              => Last(events) = CancelCompletion

\* cancel() arrived during output generation and the last check ended the run
C4_Witness ==
    /\ cancelPc \in {"render", "render_write", "check_render"}
    /\ CallsOfStage(5) # {}
    /\ EndedWith(CancelCompletion)

\* C5 (as claimed): before starting each stage N > 1 the run checks the flag:
\* if cancel() was called during stage N-1 (run or skipped), the run invokes no
\* collaborator of stage N or later and, unless a required collaborator failed
\* or raised, ends with the cancellation completion.
C5_CheckBeforeEachStage ==
    \A n \in 2..5 :
        cancelPc \in StageRegion(n - 1) =>
            /\ \A m \in n..5 : CallsOfStage(m) = {}
            /\ (pc = "done" /\ ~LoadFailed /\ ~TranscribeFailed /\ ~ExceptionCaught)
                  => Last(events) = CancelCompletion

\* C6 (as claimed): when cancel() is called while a collaborator is running,
\* the run stops at the next status callback of the collaborator: once a
\* callback has read the flag as set, no further call is made in the run.
C6_StopsAtNextCallback ==
    (cancelPc \in InsideCollaborator /\ observedAt >= 0) => Len(calls) <= observedAt

\* C7: the progress values reported never decrease and lie in [0,100],
\* including the value that is about to be emitted.
C7_ProgressMonotone ==
    LET vals == ProgressValues \o
                (IF pending # <<>> /\ IsProgress(pending[1]) THEN <<pending[1].n>> ELSE <<>>)
    IN /\ \A i \in 1..Len(vals) : vals[i] >= 0 /\ vals[i] <= 100
       /\ \A i \in 1..Len(vals) : \A j \in i..Len(vals) : vals[i] <= vals[j]

\* a successful run with both optional stages enabled has reported all six milestones
C7_Witness ==
    /\ EndedWith(SuccessCompletion)
    /\ req.enable_summary /\ req.enable_translation
    /\ Len(ProgressValues) = 6

Milestones == <<0, 10, 60, 70, 85, 100>>

\* C8: with summary and translation disabled the progress values reported are
\* always an initial part of 0,10,60,70,85,100 (drawn from the milestones, in
\* non-decreasing order, none skipped), and a run that succeeds without a
\* cancel request has reported exactly the six milestones in that order.
C8_MilestonesWhenOptionalStagesOff ==
    (pc # "idle" /\ ~req.enable_summary /\ ~req.enable_translation) =>
        /\ Len(ProgressValues) <= Len(Milestones)
        /\ ProgressValues = SubSeq(Milestones, 1, Len(ProgressValues))
        /\ (EndedWith(SuccessCompletion) /\ cancelPc \in {"", "done"})
              => ProgressValues = Milestones

\* a successful run with both optional stages disabled and no cancel request
C8_Witness ==
    /\ ~req.enable_summary /\ ~req.enable_translation
    /\ cancelPc = ""
    /\ EndedWith(SuccessCompletion)
    /\ ProgressValues = Milestones

\* C9 (as claimed): whenever the run emits a success completion, progress 100
\* and then the final status message were emitted before it.
C9_SuccessAfterProgress100 ==
    \A i \in FinishedAt :
        events[i].ok =>
            \E j \in 1..(i - 1) : \E k \in (j + 1)..(i - 1) :
                /\ events[j] = Progress(100)
                /\ events[k] = Status("done")

\* C10: if load_model returns false or transcribe returns null, the run emits
\* exactly one error notification and then the completion with success=false
\* and no payload, and makes no call of a later stage and no second call of
\* the failed collaborator.
C10_RequiredFailureStops ==
    /\ LoadFailed =>
          /\ Cardinality(ErrorsAt) = 1
          /\ Last(events) = (IF pc = "done" THEN FailureCompletion
                             ELSE Error("model load failed"))
          /\ pc = "done" => events[Len(events) - 1] = Error("model load failed")
          /\ \A n \in 2..5 : CallsOfStage(n) = {}
          /\ Cardinality(CallsTo("load_model")) = 1
    /\ TranscribeFailed =>
          /\ Cardinality(ErrorsAt) = 1
          /\ Last(events) = (IF pc = "done" THEN FailureCompletion
                             ELSE Error("transcription failed"))
          /\ pc = "done" => events[Len(events) - 1] = Error("transcription failed")
          /\ \A n \in 3..5 : CallsOfStage(n) = {}
          /\ Cardinality(CallsTo("transcribe")) = 1

\* transcribe returned null and the run ended with the failure completion
C10_Witness ==
    /\ TranscribeFailed
    /\ EndedWith(FailureCompletion)
    /\ CallsTo("model.transcribe") # {}

----------------------------------------------------------------------------

\* an exception was raised inside the try block of run()
Raised == loc.exc # ""

\* C11: an exception raised inside run() is caught by the outer handler: from
\* the raise on the run is in the handler or over, it makes no further call,
\* the handler emits one error notification carrying the exception's message
\* and then the completion with success=false and no payload, and the run
\* ends (the exception does not leave run()).
C11_ExceptionCaughtOnce ==
    Raised =>
        /\ pc \in {"except", "fin_except", "done"}
        /\ loc.exc \in ExcMessages
        /\ pc = "except" => ErrorsAt = {}
        /\ pc = "fin_except" =>
              /\ Last(events) = Error(TaskFailed(loc.exc))
              /\ Cardinality(ErrorsAt) = 1
              /\ FinishedAt = {}
        /\ pc = "done" =>
              /\ Len(events) >= 2
              /\ Last(events) = FailureCompletion
              /\ events[Len(events) - 1] = Error(TaskFailed(loc.exc))
              /\ Cardinality(ErrorsAt) = 1
              /\ Cardinality(FinishedAt) = 1
              /\ delivered = <<>>

\* Translator() raised after a summary was produced, and the handler ended the run
C11_Witness ==
    /\ loc.exc = "translator unavailable"
    /\ Truthy(result.summary)
    /\ pc = "done"
    /\ Last(events) = FailureCompletion
    /\ events[Len(events) - 1] = Error("task failed: translator unavailable")

\* C12: a completion with success=false carries the cancellation message
\* exactly when the run stopped at a cancellation check (the flag was set, no
\* collaborator failed, nothing was raised, no error was notified), and
\* carries no payload exactly when load_model or transcribe failed or an
\* exception was caught (after exactly one error notification).
C12_FailurePayloadTellsReason ==
    \A i \in FinishedAt :
        ~events[i].ok =>
            /\ events[i].m \in {CancelMsg, None}
            /\ events[i].m = CancelMsg <=>
                  /\ cancelled
                  /\ ~LoadFailed /\ ~TranscribeFailed /\ ~Raised
                  /\ ErrorsAt = {}
            /\ events[i].m = None <=>
                  /\ LoadFailed \/ TranscribeFailed \/ Raised
                  /\ Cardinality(ErrorsAt) = 1

\* a run stopped by the check after summarization, and nothing had failed
C12_Witness ==
    /\ EndedWith(CancelCompletion)
    /\ CallsTo("summarize") # {}
    /\ CallsOfStage(4) = {}
    /\ ~LoadFailed /\ ~TranscribeFailed /\ ~Raised

\* C13: the result object reaches the observer only with the success
\* completion, and complete: its transcript is set, its summary is set only
\* if summary was enabled and the summarizer returned text (that text), its
\* translation is a bundle exactly if translation was enabled, and its files
\* are exactly the paths written by the renderers that reported success, each
\* once; a cancellation or failure completion delivers no result.
C13_ResultOnlyOnSuccessAndComplete ==
    /\ delivered # <<>> <=> (FinishedAt # {} /\ Last(events) = SuccessCompletion)
    /\ delivered # <<>> =>
          LET r == delivered[1]
          IN /\ r = result
             /\ r.transcript.some
             /\ r.transcript = loc.transcription_result
             /\ r.summary # None =>
                   /\ req.enable_summary
                   /\ CallsTo("summarize") # {}
                   /\ Truthy(loc.summary_text)
                   /\ r.summary = loc.summary_text
             /\ r.translation.some <=> req.enable_translation
             /\ Range(r.files) = written
             /\ Len(r.files) = Cardinality(written)

\* a success completion delivering a summary, a translation bundle and at
\* least two files, in a run where one renderer call failed
C13_Witness ==
    /\ delivered # <<>>
    /\ delivered[1].summary # None
    /\ delivered[1].translation.some
    /\ Len(delivered[1].files) >= 2
    /\ Cardinality(CallsTo("write")) > Len(delivered[1].files)

\* C14: if every collaborator call returns, every started run reaches its end
\* and has emitted its completion event.
C14_EveryRunCompletes ==
    (pc = "start") ~> (pc = "done" /\ FinishedAt # {})

\* a run that went through the five stages and emitted its completion
C14_Witness ==
    /\ pc = "done"
    /\ Cardinality(FinishedAt) = 1
    /\ \A n \in 1..5 : CallsOfStage(n) # {}

\* the labels of the summary branch (lines 101-115) and of the translation
\* branch (lines 123-159)
SummaryBranch ==
    {"summarizer_new", "summarize", "summarize_tokenize", "summarize_lsa", "summary_ret"}
TranslationBranch ==
    {"translator_new", "translate_text", "translate_text_api", "translate_summary",
     "translate_summary_api", "translate_segments", "segment_callback",
     "segment_translate", "segments_done", "translation_ret"}

\* event v, where it was emitted, directly follows event u
DirectlyFollows(v, u) ==
    \A i \in 1..Len(events) : events[i] = v => (i > 1 /\ events[i - 1] = u)

\* C15: when summary is disabled the summarizer is never constructed or
\* invoked, the summary stays null and progress 70, where reported, directly
\* follows progress 60; when translation is disabled the translator is never
\* constructed or invoked, the translation bundle stays null and progress 85,
\* where reported, directly follows progress 70.
C15_DisabledStagesSkipped ==
    pc # "idle" =>
        /\ ~req.enable_summary =>
              /\ pc \notin SummaryBranch
              /\ CallsOfStage(3) = {}
              /\ result.summary = None /\ loc.summary_text = None
              /\ DirectlyFollows(Progress(70), Progress(60))
              /\ (pending = <<Progress(70)>>) => Last(events) = Progress(60)
        /\ ~req.enable_translation =>
              /\ pc \notin TranslationBranch
              /\ CallsOfStage(4) = {}
              /\ result.translation = NoTranslation
              /\ DirectlyFollows(Progress(85), Progress(70))
              /\ (pending = <<Progress(85)>>) => Last(events) = Progress(70)

\* both stages disabled: 60, 70 and 85 were reported one after the other and
\* the delivered result has neither summary nor translation
C15_Witness ==
    /\ ~req.enable_summary /\ ~req.enable_translation
    /\ delivered # <<>>
    /\ delivered[1].summary = None /\ ~delivered[1].translation.some
    /\ \E i \in 1..(Len(events) - 2) :
          /\ events[i] = Progress(60)
          /\ events[i + 1] = Progress(70)
          /\ events[i + 2] = Progress(85)

\* the summarizer faulted (returned null on a non-empty text)
SummaryFaulted ==
    /\ CallsTo("summarize") # {}
    /\ strip(transcript_text) # ""
    /\ loc.summary_text = None

\* the items of the translation bundle whose own translation call failed: a
\* null text or summary, a segment that kept its original text
FailedItems ==
    (IF strip(transcript_text) # "" /\ result.translation.text = None THEN 1 ELSE 0)
    + (IF Truthy(loc.summary_text) /\ result.translation.summary = None THEN 1 ELSE 0)
    + Cardinality({i \in 1..Len(segments) :
                      /\ strip(segments[i].text) # ""
                      /\ result.translation.segments.some
                      /\ result.translation.segments.val[i].text = segments[i].text})

\* C16: with translation enabled, once the translation stage has stored its
\* bundle: the full-text call and the segments call were each made once and
\* the summary call exactly if a summary exists, whatever the other calls
\* returned; each field holds what its own call returned (its translation or
\* null), so that every failed call accounts for exactly one null or
\* untranslated item; no error notification was emitted and the run goes on to
\* output generation (a run that ends here ends at the cancellation check).
C16_TranslationCallsIndependent ==
    result.translation.some =>
        /\ req.enable_translation
        /\ Cardinality(CallsTo("translate_text")) =
              1 + (IF Truthy(loc.summary_text) THEN 1 ELSE 0)
        /\ Cardinality(CallsTo("translate_segments")) = 1
        /\ result.translation.text \in
              {None, Translated(transcript_text, req.target_language)}
        /\ result.translation.text = None => strip(transcript_text) = "" \/ loc.faults > 0
        /\ IF Truthy(loc.summary_text)
           THEN /\ result.translation.summary \in
                      {None, Translated(loc.summary_text, req.target_language)}
                /\ result.translation.summary = None => loc.faults > 0
           ELSE result.translation.summary = None
        /\ result.translation.segments.some <=> Len(segments) > 0
        /\ CallsOfStage(5) = {} =>
              FailedItems = loc.faults - (IF SummaryFaulted THEN 1 ELSE 0)
        /\ ErrorsAt = {}
        /\ pc \in {"progress_85", "status_files", "render", "render_write",
                  "check_render", "progress_100", "status_done", "fin_success", "done"}
        /\ (pc = "done" /\ CallsOfStage(5) = {}) => Last(events) = CancelCompletion

\* the full-text translation failed; summary and segments were translated
\* all the same, and the run succeeded and wrote files
C16_Witness ==
    /\ EndedWith(SuccessCompletion)
    /\ transcript_text # ""
    /\ result.translation.some
    /\ result.translation.text = None
    /\ Truthy(result.translation.summary)
    /\ TruthySegs(result.translation.segments)
    /\ FailedItems = 1
    /\ Len(result.files) > 0

\* segment out is input segment seg with its timing, and with its text
\* either translated or unchanged (unchanged if there is nothing to translate)
SegmentOf(out, seg) ==
    /\ out.start = seg.start
    /\ out.end = seg.end
    /\ out.text \in {seg.text, Translated(strip(seg.text), req.target_language)}
    /\ strip(seg.text) = "" => out.text = seg.text

\* the segments of q that kept their text although there was text to translate
KeptOriginal(q) ==
    {i \in 1..Len(q) : strip(segments[i].text) # "" /\ q[i].text = segments[i].text}

\* the translation calls made for segments so far
SegmentCalls ==
    {i \in 1..Len(calls) : calls[i] = Call("translator.translate", "segment")}

\* C17: translate_segments, given a non-empty sequence, builds and returns a
\* sequence of the same length and order in which every segment has the
\* start and end of the input segment and a text that is its translation or
\* the original text; one translation call is made per segment that has
\* text, whatever the earlier ones returned, and the segments that kept their
\* original text are exactly as many as the failed calls that are not
\* accounted for by the summarizer, the full-text or the summary translation.
C17_SegmentsTranslatedIndependently ==
    /\ pc \in {"segment_callback", "segment_translate", "segments_done"} =>
          /\ Len(loc.acc) = loc.i
          /\ loc.i <= Len(segments)
          /\ \A i \in 1..Len(loc.acc) : SegmentOf(loc.acc[i], segments[i])
    /\ loc.translated_segments.some =>
          LET out == loc.translated_segments.val
          IN /\ Len(segments) > 0
             /\ Len(out) = Len(segments)
             /\ \A i \in 1..Len(out) : SegmentOf(out[i], segments[i])
             /\ Cardinality(SegmentCalls) =
                   Cardinality({i \in 1..Len(segments) : strip(segments[i].text) # ""})
             /\ CallsOfStage(5) = {} =>
                   Cardinality(KeptOriginal(out)) =
                       loc.faults
                       - (IF SummaryFaulted THEN 1 ELSE 0)
                       - (IF strip(transcript_text) # "" /\ loc.translated_text = None
                          THEN 1 ELSE 0)
                       - (IF Truthy(loc.summary_text) /\ loc.translated_summary = None
                          THEN 1 ELSE 0)

\* the full text was translated, the translation of the first of two
\* segments failed and the second was translated
C17_Witness ==
    /\ loc.translated_segments.some
    /\ Len(loc.translated_segments.val) = 2
    /\ Truthy(loc.translated_text)
    /\ loc.translated_segments.val[1] = segments[1]
    /\ loc.translated_segments.val[2] =
          [segments[2] EXCEPT !.text = Translated("a", req.target_language)]
    /\ segments[2].text = " a"

\* every collaborator call of the run returned its data: a summary, the
\* three translations, and no call faulted
AllSucceeded ==
    /\ loc.faults = 0
    /\ Truthy(loc.summary_text)
    /\ Truthy(loc.translated_text)
    /\ Truthy(loc.translated_summary)
    /\ TruthySegs(loc.translated_segments)

\* the eight paths of a full request, for target language L
FullFileList(L) ==
    <<"dir/in.txt",
      "dir/in_summary.txt",
      "dir/in_" \o L \o ".txt",
      "dir/in_summary_" \o L \o ".txt",
      "dir/in.srt",
      "dir/in_" \o L \o ".srt",
      "dir/in_transcript.pdf",
      "dir/in_transcript_" \o L \o ".pdf">>

\* the same, tabulated by target language
FileListOf == [L \in TargetLangs |-> FullFileList(L)]

\* C18: with formats {txt, srt, pdf}, summary and translation enabled and
\* every collaborator call succeeding, the files of the delivered result are
\* the eight paths base.txt, base_summary.txt, base_L.txt, base_summary_L.txt,
\* base.srt, base_L.srt, base_transcript.pdf, base_transcript_L.pdf in the
\* input's directory, pairwise distinct, and these are the files written.
C18_FullRequestFiles ==
    (/\ delivered # <<>>
     /\ Range(req.output_formats) = {"txt", "srt", "pdf"}
     /\ req.enable_summary /\ req.enable_translation
     /\ AllSucceeded) =>
        /\ delivered[1].files = FullFileList(req.target_language)
        /\ Cardinality(Range(delivered[1].files)) = 8
        /\ written = Range(delivered[1].files)

\* a full request whose every call succeeded delivered eight files
C18_Witness ==
    /\ delivered # <<>>
    /\ Range(req.output_formats) = {"txt", "srt", "pdf"}
    /\ req.enable_summary /\ req.enable_translation
    /\ AllSucceeded
    /\ Len(delivered[1].files) = 8

\* the renderer calls made so far, as positions in the call log
RendererCalls ==
    {i \in 1..Len(calls) : calls[i].fn \in {"create_txt", "create_srt", "create_pdf"}}

\* _create_output_files has returned
OutputGenerated ==
    pc \in {"check_render", "progress_100", "status_done", "fin_success"}
    \/ (pc = "done" /\ loc.k > NumVariants)

\* C19: with formats = {srt} and summary and translation disabled, output
\* generation makes exactly one renderer call, the subtitle renderer on the
\* original segments at base.srt, and when that call succeeded the files of
\* the result are exactly that one path (none when it failed).
C19_SubtitleOnlyRequest ==
    (/\ pc # "idle"
     /\ req.output_formats = <<"srt">>
     /\ ~req.enable_summary /\ ~req.enable_translation) =>
        /\ Cardinality(RendererCalls) <= 1
        /\ \A i \in RendererCalls : calls[i] = Call("create_srt", "dir/in.srt")
        /\ OutputGenerated => Cardinality(RendererCalls) = 1
        /\ delivered # <<>> =>
              delivered[1].files = (IF written = {} THEN <<>> ELSE <<"dir/in.srt">>)
        /\ written \subseteq {"dir/in.srt"}

\* a subtitle-only request succeeded with its one file
C19_Witness ==
    /\ req.output_formats = <<"srt">>
    /\ ~req.enable_summary /\ ~req.enable_translation
    /\ delivered # <<>>
    /\ delivered[1].files = <<"dir/in.srt">>
    /\ Cardinality(RendererCalls) = 1

IsRendererCall(c) == c.fn \in {"create_txt", "create_srt", "create_pdf"}

\* the renderer calls of the run, in call order
RendererLog == SelectSeq(calls, IsRendererCall)

\* the place of x in sequence q
PlaceIn(q, x) == CHOOSE i \in 1..Len(q) : q[i] = x

\* q lists elements of order, each once, in the order of order
SubsequenceOf(q, order) ==
    /\ \A i \in 1..Len(q) : q[i] \in Range(order)
    /\ \A i \in 1..(Len(q) - 1) : PlaceIn(order, q[i]) < PlaceIn(order, q[i + 1])

\* the renderer that generates the file at place n of the fixed order
RendererAt(n) ==
    IF n <= 4 THEN "create_txt" ELSE IF n <= 6 THEN "create_srt" ELSE "create_pdf"

\* C20: the renderer calls of a run, and the files list built from them,
\* follow the fixed order txt [original, summary, translated text, translated
\* summary], srt [original, translated], pdf [original, translated], whatever
\* the order of the formats in the request: the paths of the calls, the paths
\* collected and the files of the result are subsequences of that order, and
\* each path is generated by the renderer of its group.
C20_FixedGenerationOrder ==
    pc # "idle" =>
        LET order == FileListOf[req.target_language]
            log == RendererLog
            paths == [i \in 1..Len(log) |-> log[i].arg]
        IN /\ SubsequenceOf(paths, order)
           /\ \A i \in 1..Len(log) :
                 log[i].fn = RendererAt(PlaceIn(order, paths[i]))
           /\ SubsequenceOf(loc.created_files, paths)
           /\ result.files \in {<<>>, loc.created_files}
           /\ delivered # <<>> => delivered[1].files = loc.created_files

\* a request listing pdf, srt, txt delivered its text file first and its
\* document last, after a renderer call that failed
C20_Witness ==
    /\ req.output_formats = <<"pdf", "srt", "txt">>
    /\ delivered # <<>>
    /\ Len(delivered[1].files) >= 3
    /\ Len(delivered[1].files) < Len(RendererLog)
    /\ delivered[1].files[1] = "dir/in.txt"
    /\ Last(delivered[1].files) = "dir/in_transcript.pdf"

\* the faults of the translation stage: a null text or summary translation
\* of a text that was there, a segment that kept its text
TranslationFaults ==
    IF CallsTo("translate_text") = {} THEN 0
    ELSE (IF strip(transcript_text) # "" /\ loc.translated_text = None THEN 1 ELSE 0)
         + (IF Truthy(loc.summary_text) /\ loc.translated_summary = None
               /\ Cardinality(CallsTo("translate_text")) = 2
            THEN 1 ELSE 0)
         + (IF loc.translated_segments.some
            THEN Cardinality(KeptOriginal(loc.translated_segments.val)) ELSE 0)

\* the renderer calls that returned false
RendererFaults ==
    loc.faults - (IF SummaryFaulted THEN 1 ELSE 0) - TranslationFaults

\* the paths of the variants whose guard holds, in generation order
PlannedPaths ==
    LET IsPlanned(k) == VariantAttempted(k)
        ks == SelectSeq([k \in 1..NumVariants |-> k], IsPlanned)
    IN [i \in 1..Len(ks) |-> VariantPath(ks[i])]

\* C21: the variants attempted do not depend on the outcome of earlier
\* renderer calls: when output generation has returned, the renderer calls
\* made are those of all the variants whose data and format guard holds, the
\* paths collected are the paths of the calls less one per call that returned
\* false, no error was notified, and the run ends with the success completion
\* (with whatever files there are) unless cancel() was called.
C21_RendererFailureSkipsOnlyItself ==
    OutputGenerated =>
        /\ [i \in 1..Len(RendererLog) |-> RendererLog[i].arg] = PlannedPaths
        /\ Len(loc.created_files) = Len(RendererLog) - RendererFaults
        /\ Range(loc.created_files) = written
        /\ ErrorsAt = {}
        /\ pc = "done" => Last(events) \in {SuccessCompletion, CancelCompletion}
        /\ (pc = "done" /\ ~cancelled) =>
              /\ Last(events) = SuccessCompletion
              /\ delivered[1].files = loc.created_files

\* the first of at least three renderer calls failed, the later ones were
\* made and the run succeeded without the first path
C21_Witness ==
    /\ EndedWith(SuccessCompletion)
    /\ Len(RendererLog) >= 3
    /\ RendererFaults = 1
    /\ Len(delivered[1].files) = Len(RendererLog) - 1
    /\ RendererLog[1].arg \notin Range(delivered[1].files)
    /\ RendererLog[Len(RendererLog)].arg \in Range(delivered[1].files)

\* C22 (as claimed): every text or subtitle renderer call is made with
\* non-empty data: no create_txt call with an empty text and no create_srt
\* call with an empty segment sequence, for the original variants as well as
\* for the summary and translated ones.
C22_RendererOnlyOnNonEmptyData ==
    LET order == FileListOf[req.target_language]
    IN \A i \in 1..Len(RendererLog) :
          RendererLog[i].fn \in {"create_txt", "create_srt"} =>
              ~VariantEmpty(PlaceIn(order, RendererLog[i].arg))

\* the renderer call c was made in this run
Attempted(c) == \E i \in 1..Len(calls) : calls[i] = c

\* C23: when output generation has returned, the translated subtitle file
\* (the translated document) was attempted exactly if srt (pdf) is requested
\* and segment translation returned a non-empty sequence, whatever the
\* full-text and summary translations returned; the original document was
\* attempted exactly if pdf is requested; and at no time is a subtitle file
\* attempted other than the original and the translated one.
C23_TranslatedSegmentFiles ==
    LET L == req.target_language
        requested(f) == f \in Range(req.output_formats)
    IN /\ OutputGenerated =>
             /\ Attempted(Call("create_srt", "dir/in_" \o L \o ".srt")) <=>
                   (requested("srt") /\ TruthySegs(loc.translated_segments))
             /\ Attempted(Call("create_pdf", "dir/in_transcript_" \o L \o ".pdf")) <=>
                   (requested("pdf") /\ TruthySegs(loc.translated_segments))
             /\ Attempted(Call("create_pdf", "dir/in_transcript.pdf")) <=> requested("pdf")
       /\ TruthySegs(loc.translated_segments) <=>
             (CallsTo("translate_segments") # {} /\ Len(segments) > 0
              /\ pc \notin {"segment_callback", "segment_translate", "segments_done"})
       /\ \A i \in 1..Len(calls) :
             /\ calls[i].fn = "create_srt" =>
                   calls[i].arg \in {"dir/in.srt", "dir/in_" \o L \o ".srt"}
             /\ calls[i].fn = "create_pdf" =>
                   calls[i].arg \in {"dir/in_transcript.pdf",
                                     "dir/in_transcript_" \o L \o ".pdf"}

\* the full-text translation failed and there is no translated text file,
\* yet the translated subtitle file and the translated document were written
C23_Witness ==
    /\ EndedWith(SuccessCompletion)
    /\ strip(transcript_text) # ""
    /\ loc.translated_text = None
    /\ "dir/in_ko.txt" \notin written
    /\ {"dir/in_ko.srt", "dir/in_transcript_ko.pdf"} \subseteq written

\* the stamp the fields of a decimal time n.mmm make: hours not wrapped at
\* 24, minutes, seconds, milliseconds
Stamp(t) ==
    Pad2(t.n \div 3600) \o ":" \o Pad2((t.n % 3600) \div 60) \o ":"
        \o Pad2(t.n % 60) \o "," \o Pad3(t.ms)

\* C24: format_time(t) of a time t >= 0 is HH:MM:SS,mmm with HH the whole
\* hours of t (not wrapped at 24), MM the whole minutes of t mod 3600, SS the
\* whole seconds of t mod 60 and mmm the fractional second in milliseconds,
\* so that 0.0, 2.5 and 5.999 give 00:00:00,000, 00:00:02,500 and 00:00:05,999
C24_FormatTimeFields ==
    (pc = "returned" /\ input.fn = "format_time") => output = Stamp(input.t)

\* the cue block of the i-th segment
CueBlock(i, segment) ==
    <<ToString(i),
      format_time(segment.start) \o " --> " \o format_time(segment.end),
      strip(segment.text),
      "">>

\* the cue blocks of the first n segments, in input order
RECURSIVE CueBlocks(_, _)
CueBlocks(q, n) ==
    IF n = 0 THEN <<>> ELSE CueBlocks(q, n - 1) \o CueBlock(n, q[n])

IsPrefix(p, q) == Len(p) <= Len(q) /\ \A i \in 1..Len(p) : p[i] = q[i]

\* C25: create_srt writes one cue block per segment, in input order and
\* numbered from 1, each the index line, the start --> end line, the trimmed
\* text and a blank line; it returns true exactly when the whole file was
\* written without a fault, and false, never an exception, otherwise
C25_CreateSrt ==
    (pc \in {"srt_status", "srt_open", "srt_loop", "srt_index", "srt_header",
             "srt_text", "srt_done", "srt_except", "srt_returned"}) =>
        LET all == CueBlocks(input.segments, Len(input.segments))
        IN /\ IsPrefix(output.file, all)
           /\ pc = "srt_returned" =>
                  /\ output.ret = ~output.faulted
                  /\ output.ret => output.opened /\ output.file = all
                  /\ ~output.ret => output.status[Len(output.status)] = SrtFailed

\* every block of a list of MaxSegs segments was written, and create_srt returned true
C25_Witness ==
    /\ pc = "srt_returned"
    /\ output.ret
    /\ Len(input.segments) = MaxSegs
    /\ Len(output.file) = 4 * MaxSegs
    /\ output.file[1] = "1"
    /\ output.file[2] = "00:00:00,000 --> 00:00:02,500"
    /\ output.file[3] = "a"

----------------------------------------------------------------------------
(* Several runs *)

\* the renderer calls of the run, by path, in call order
RendererPaths == [i \in 1..Len(RendererLog) |-> RendererLog[i].arg]

\* what each renderer call of the run returned, in call order
RendererReturns == [i \in 1..Len(RendererLog) |-> RendererLog[i].arg \in written]

\* the renderer calls that have returned: the last one has not while its
\* file is being written
RenderersReturned ==
    IF pc = "render_write" THEN Len(RendererLog) - 1 ELSE Len(RendererLog)

\* what the collaborators of the run returned to run()
CollaboratorResults ==
    [ret_ok |-> loc.ret_ok,
     transcription_result |-> loc.transcription_result,
     summary_text |-> loc.summary_text,
     translated_text |-> loc.translated_text,
     translated_summary |-> loc.translated_summary,
     translated_segments |-> loc.translated_segments,
     renderers |-> RendererReturns,
     exc |-> loc.exc]

\* _on_conversion_finished: the finished signal of the run reaches the main
\* window, which enables the start button again (lines 218-219); prev keeps
\* the first run handled
_on_conversion_finished ==
    /\ pc = "done"
    /\ pending = <<>>
    /\ start_button' = TRUE
    /\ prev' = IF prev = <<>>
               THEN <<[req |-> req,
                       results |-> CollaboratorResults,
                       renderers |-> RendererPaths,
                       files |-> result.files]>>
               ELSE prev
    /\ pc' = "idle"
    /\ UNCHANGED <<req, cancelled, pending, events, delivered, calls, written, result,
                   loc, models, current_model_size, cancelPc, observedAt, input, output>>

\* the user starts the same request again without cancelling, and every
\* collaborator is deterministic: it returns what it returned in the first run
SameAsBefore ==
    /\ ~cancelled
    /\ prev # <<>> =>
           LET p == prev[1]
           IN /\ req = p.req
              /\ loc.transcription_result \in
                     {InitLoc.transcription_result, p.results.transcription_result}
              /\ loc.summary_text \in {InitLoc.summary_text, p.results.summary_text}
              /\ loc.translated_text \in
                     {InitLoc.translated_text, p.results.translated_text}
              /\ loc.translated_summary \in
                     {InitLoc.translated_summary, p.results.translated_summary}
              /\ loc.translated_segments \in
                     {InitLoc.translated_segments, p.results.translated_segments}
              /\ loc.exc \in {"", p.results.exc}
              /\ IsPrefix(SubSeq(RendererReturns, 1, RenderersReturned),
                          p.results.renderers)
              /\ pc = "done" => CollaboratorResults = p.results

MultiNext ==
    \/ Next /\ SameAsBefore'
    \/ _on_conversion_finished

MultiSpec == Init /\ [][MultiNext]_vars

\* C26: a second run of the same request against the same deterministic
\* collaborators attempts the same renderer calls in the same order and
\* reports the same files list as the first: nothing the first run left
\* behind, the cached model included, changes the plan
C26_RerunSamePlan ==
    (prev # <<>> /\ pc = "done") =>
        /\ RendererPaths = prev[1].renderers
        /\ result.files = prev[1].files

\* a second run has ended with two files or more, one renderer call having
\* failed, on the model the first run left in the cache
C26_Witness ==
    /\ prev # <<>>
    /\ pc = "done"
    /\ \A i \in 1..Len(calls) : calls[i].fn # "whisper.load_model"
    /\ Len(result.files) >= 2
    /\ Len(RendererPaths) > Len(result.files)

\* C27: cancel() can be called whenever the worker exists and is idempotent:
\* it sets the flag and touches nothing else of the worker, a second call
\* changes nothing at all, no step of the run clears the flag, and once the
\* completion event has been emitted a call is followed by no further event
C27_CancelIdempotent ==
    [][/\ pc # "idle" => ENABLED cancel
       /\ cancelled => cancelled'
       /\ cancel => /\ cancelled'
                    /\ UNCHANGED <<pc, req, pending, events, delivered, calls,
                                   written, result, loc, models, current_model_size>>
       /\ (cancel /\ cancelled) => UNCHANGED vars
       /\ pc = "done" => UNCHANGED <<pending, events, delivered>>]_vars

\* cancel() was first called after the success completion had been emitted
C27_Witness ==
    /\ cancelled
    /\ cancelPc = "done"
    /\ Last(events) = SuccessCompletion

\* the place of a logged call in the fixed order of collaborators; a call a
\* collaborator makes itself has the place of that collaborator
PlaceOf(c) ==
    CASE c.fn \in {"load_model", "whisper.load_model"} -> 1
      [] c.fn \in {"transcribe", "model.transcribe"} -> 2
      [] c.fn \in {"summarize", "sent_tokenize", "LsaSummarizer"} -> 3
      [] c.fn \in {"translate_text", "translator.translate"} /\ c.arg = "text" -> 4
      [] c.fn \in {"translate_text", "translator.translate"} /\ c.arg = "summary" -> 5
      [] c.fn = "translate_segments" \/ c = Call("translator.translate", "segment") -> 6
      [] c.fn \in {"create_txt", "create_srt", "create_pdf", "write"} -> 7

\* the calls run() makes, as opposed to those a collaborator makes
ByRun(c) ==
    c.fn \in {"load_model", "transcribe", "summarize", "translate_text",
              "translate_segments", "create_txt", "create_srt", "create_pdf"}

\* the translation stage was skipped, or all its calls have been made
TranslationStageOver ==
    IF req.enable_translation
    THEN /\ \E i \in 1..Len(calls) : calls[i] = Call("translate_text", "text")
         /\ Truthy(loc.summary_text) =>
                \E i \in 1..Len(calls) : calls[i] = Call("translate_text", "summary")
         /\ \E i \in 1..Len(calls) : calls[i].fn = "translate_segments"
         /\ pc \notin TranslationBranch
    ELSE \A i \in 1..Len(calls) : PlaceOf(calls[i]) \notin {4, 5, 6}

\* C28: the collaborator calls of a run do not overlap and keep the order
\* load_model, transcribe, summarize, translate text, translate summary,
\* translate segments, renderers; each of the first six is invoked at most
\* once (no retry, no re-entry), and a renderer is invoked only after the
\* translation stage is over or was skipped.  Stated of the call logged
\* last in every state, and of the whole log when the run has ended
C28_CollaboratorOrder ==
    /\ \A i \in (IF pc = "done" THEN 1..Len(calls) ELSE {Len(calls)} \ {0}) :
           LET c == calls[i]
           IN IF ByRun(c)
              THEN i > 1 =>
                       /\ PlaceOf(calls[i - 1]) <= PlaceOf(c)
                       /\ PlaceOf(c) < 7 => PlaceOf(calls[i - 1]) < PlaceOf(c)
              ELSE /\ i > 1
                   /\ PlaceOf(calls[i - 1]) = PlaceOf(c)
                   /\ c.fn = "write" =>
                          ByRun(calls[i - 1]) /\ calls[i - 1].arg = c.arg
    /\ (calls # <<>> /\ PlaceOf(Last(calls)) = 7) => TranslationStageOver

\* all seven kinds of call were made in one run
C28_Witness ==
    /\ pc = "done"
    /\ \A n \in 1..7 : \E i \in 1..Len(calls) : PlaceOf(calls[i]) = n /\ ByRun(calls[i])
    /\ Cardinality({i \in 1..Len(calls) : PlaceOf(calls[i]) = 7 /\ ByRun(calls[i])}) > 1

\* a run is active: started, and its completion not yet handled
RunActive == pc # "idle"

\* C29: at most one run is active at a time: the start button is disabled
\* from the start of a run until _on_conversion_finished has handled its
\* completion event, so a run starts only when none is active, and the
\* completion is handled only after the run has emitted it
C29_OneRunAtATime ==
    [][/\ RunActive => ~start_button
       /\ pc' = "start" => ~RunActive /\ ~start_button'
       /\ (RunActive /\ ~RunActive') => (pc = "done" /\ FinishedAt # {})]_vars

\* a second run is active, started after the completion of the first was handled
C29_Witness ==
    /\ prev # <<>>
    /\ pc \notin {"idle", "done"}
    /\ ~start_button
    /\ calls # <<>>

\* the loader was invoked by the load_model call that is returning
LoaderInvoked == \E i \in 1..Len(calls) : calls[i].fn = "whisper.load_model"

\* C30: the cache is keyed by model identifier and outlives the calls: the
\* loader is invoked only for an identifier it has not loaded since the cache
\* was last cleared, and when load_model(m) returns true the current model
\* is the cache entry of m
C30_ModelCache ==
    pc = "load_ret" =>
        /\ LoaderInvoked => input.model_size \notin output.loaded
        /\ input.model_size \in output.loaded => loc.ret_ok
        /\ loc.ret_ok => /\ current_model_size = input.model_size
                         /\ input.model_size \in models
        /\ output.loaded = models \ (IF LoaderInvoked THEN {input.model_size} ELSE {})

\* load_model returns true from the cache, without the loader, while another
\* identifier is cached too
C30_Witness ==
    /\ pc = "load_ret"
    /\ loc.ret_ok
    /\ ~LoaderInvoked
    /\ input.model_size \in output.loaded
    /\ Cardinality(output.loaded) > 1

\* C31: translate_segments pauses after each segment whose 1-based index is
\* a multiple of batch_size and at no other time: after i segments it has
\* paused floor(i / batch_size) times, floor(n / batch_size) times when it
\* returns, whether or not cancel() was called meanwhile
C31_BatchPauses ==
    /\ pc \in {"segment_callback", "segment_translate", "segments_done"} =>
           loc.pauses = loc.i \div batch_size
    /\ pc = "translation_ret" =>
           /\ loc.pauses = Len(segments) \div batch_size
           /\ TruthySegs(loc.translated_segments) <=> Len(segments) > 0

\* two full batches were translated, cancel() having been called during the
\* first one, and translate_segments has paused twice
C31_Witness ==
    /\ pc = "translation_ret"
    /\ Len(segments) = 2 * batch_size
    /\ cancelPc = "segment_translate"
    /\ observedAt >= 0
    /\ observedAt < batch_size
    /\ loc.pauses = 2

\* C32: once cancel() has been called, no progress and no status event is
\* emitted any more; error notifications and the completion event still are
C32_SilentAfterCancel ==
    [][cancelled /\ Len(events') > Len(events) =>
           events'[Len(events')].k \in {"error", "finished"}]_vars

\* C33: when load_model returns false or transcribe returns null after
\* cancel() was called, the run ends as a failure: an error notification
\* followed by the completion (false, null), and no cancellation completion
C33_FailureBeforeCancelCheck ==
    (pc = "done" /\ cancelPc \in BeforeTranscribeCall /\ (LoadFailed \/ TranscribeFailed)) =>
        /\ Len(events) >= 2
        /\ Last(events) = FailureCompletion
        /\ events[Len(events) - 1].k = "error"
        /\ Cardinality(FinishedAt) = 1
        /\ delivered = <<>>

\* the model load returned false in a run cancelled before the load
C33_Witness ==
    /\ pc = "done"
    /\ cancelPc \in {"start", "status_load", "load_model"}
    /\ LoadFailed
    /\ Last(events) = FailureCompletion

\* the transcription returned null in a run cancelled after the check of stage 1
C33_WitnessTranscribe ==
    /\ pc = "done"
    /\ cancelPc \in {"progress_10", "status_transcribe", "transcribe"}
    /\ TranscribeFailed
    /\ Last(events) = FailureCompletion

\* C34: a run whose cancellation is found by the check that follows output
\* generation ends with the cancellation completion after the renderers have
\* run: the files they wrote are still on disk and no path is delivered
C34_CancelAfterRender ==
    (pc = "done" /\ loc.k > NumVariants /\ cancelPc # "" /\ cancelPc \notin AfterLastCheck) =>
        /\ Last(events) = CancelCompletion
        /\ written = Range(loc.created_files)
        /\ delivered = <<>>
        /\ result.files = <<>>

\* cancel() came while the renderers ran; the check after them ended the run
\* and a file is on disk
C34_Witness ==
    /\ EndedWith(CancelCompletion)
    /\ cancelPc \in {"render", "render_write", "check_render"}
    /\ written # {}
    /\ delivered = <<>>

\* summarize has returned null or an empty text to run()
SummaryReturnedEmpty ==
    /\ req.enable_summary
    /\ ~Truthy(loc.summary_text)
    /\ pc \notin {"idle", "summarize", "summarize_tokenize", "summarize_lsa"}
    /\ CallsTo("summarize") # {}

\* C35: a summarizer that returns null or an empty text does not fail the
\* run: the summary of the result stays null, no error is notified for it
\* (an error, if any, is an exception caught later), an uncancelled run goes
\* on to progress 70, and neither the translation of the summary nor a
\* summary file (_summary.txt, _summary_<lang>.txt) is attempted
C35_EmptySummaryTolerated ==
    SummaryReturnedEmpty =>
        /\ result.summary = None
        /\ loc.translated_summary = None
        /\ pc \in {"summary_ret", "progress_70"} => ErrorsAt = {}
        /\ ErrorsAt # {} => ExceptionCaught
        /\ (~cancelled /\ pending = <<>> /\ pc \notin {"summary_ret", "progress_70"}) =>
               \E i \in 1..Len(events) : events[i] = Progress(70)
        /\ \A i \in 1..Len(calls) :
               /\ calls[i] # Call("translate_text", "summary")
               /\ calls[i].arg \notin {VariantPath(2), VariantPath(4)}

\* a run with summary and translation and the txt format went through to its
\* success completion although the summarizer returned nothing
C35_Witness ==
    /\ SummaryReturnedEmpty
    /\ req.enable_translation
    /\ EndedWith(SuccessCompletion)
    /\ written # {}
    /\ \E i \in 1..Len(calls) : calls[i] = Call("translate_text", "text")

----------------------------------------------------------------------------
(* ProgressDialog: the buttons of the dialog of a run *)

\* _setup_ui: the cancel button is enabled, the close button is not
ProgressDialog == [cancel_button |-> TRUE, close_button |-> FALSE]

\* the slots of the dialog, as functions of its buttons
dialog_update_progress(d, value) ==
    IF value >= 100 THEN [cancel_button |-> FALSE, close_button |-> TRUE] ELSE d

dialog_update_status(d, message) == d

show_error(d, message) == [cancel_button |-> FALSE, close_button |-> TRUE]

show_success(d, message) == [cancel_button |-> FALSE, close_button |-> TRUE]

_on_cancel(d) == [d EXCEPT !.cancel_button = FALSE]

\* the slot _start_conversion connects to the signal of event e; the finished
\* signal goes to _on_conversion_finished, which calls show_success on success
\* and leaves the dialog alone otherwise
Slot(d, e) ==
    CASE e.k = "progress" -> dialog_update_progress(d, e.n)
      [] e.k = "status" -> dialog_update_status(d, e.m)
      [] e.k = "error" -> show_error(d, e.m)
      [] e.k = "finished" -> IF e.ok THEN show_success(d, "all done") ELSE d

\* the signals of the worker are queued to the UI thread and handled in the
\* order of their emission
RECURSIVE Deliver(_, _)
Deliver(d, evs) ==
    IF evs = <<>> THEN d ELSE Deliver(Slot(d, Head(evs)), Tail(evs))

\* the dialog once every signal emitted so far has been handled; a click on
\* its cancel button runs _on_cancel before worker.cancel
progress_dialog ==
    Deliver(IF cancelled THEN _on_cancel(ProgressDialog) ELSE ProgressDialog, events)

\* one run with its dialog, from the click on the start button to the return
\* of _on_conversion_finished
DialogNext ==
    \/ Next /\ prev = <<>>
    \/ _on_conversion_finished

DialogSpec == Init /\ [][DialogNext]_vars

\* C36: once the observer has handled the completion event of a run, the
\* close button of the progress dialog is enabled
C36_DialogCanBeClosed ==
    (pc = "idle" /\ events # <<>>) => progress_dialog.close_button

\* the close button is enabled after every completion other than the
\* cancellation completion
DialogClosableUnlessCancelled ==
    (pc = "idle" /\ events # <<>> /\ Last(events) # CancelCompletion) =>
        progress_dialog.close_button

----------------------------------------------------------------------------
(* create_pdf: the page layout *)

PdfRunning ==
    pc \in {"pdf_title", "pdf_summary", "pdf_detail", "pdf_segment", "pdf_text",
            "pdf_save", "pdf_returned"}

\* the position below which the code breaks the page before a line of kind k
BreakLimit(k) ==
    CASE k = "timestamp" -> 2 * (bottom_margin + 3 * line_height)
      [] k \in {"summary", "text", "detail heading"} -> 2 * bottom_margin
      [] OTHER -> 0

\* C37: create_pdf draws no line below the bottom margin, and the timestamp
\* line of a segment is on the page of the first line of its text; a line
\* starts a new page, at the top margin, exactly when the position before it
\* was less than three line heights above the bottom margin (timestamp line)
\* or below the bottom margin (summary line, text line)
C37_PdfLayout ==
    (PdfRunning /\ output.drawn # <<>>) =>
        LET n == Len(output.drawn)
            d == output.drawn[n]
            brk == d.before < BreakLimit(d.kind)
        IN /\ d.y >= 2 * bottom_margin
           /\ d.y <= 2 * top_margin
           /\ d.y = IF brk THEN 2 * top_margin ELSE d.before
           /\ n > 1 => d.page = output.drawn[n - 1].page + (IF brk THEN 1 ELSE 0)
           /\ (d.kind = "text" /\ d.line = 1) =>
                  /\ output.drawn[n - 1].kind = "timestamp"
                  /\ output.drawn[n - 1].seg = d.seg
                  /\ output.drawn[n - 1].page = d.page

\* a document of several pages was saved: a page was broken before a
\* timestamp line that would still have fitted above the bottom margin, and
\* another before a line of text
C37_Witness ==
    /\ pc = "pdf_returned"
    /\ output.ret
    /\ \E k \in 1..Len(output.drawn) :
           /\ output.drawn[k].kind = "timestamp"
           /\ output.drawn[k].before >= 2 * bottom_margin
           /\ output.drawn[k].page > output.drawn[k - 1].page
    /\ \E k \in 1..Len(output.drawn) :
           /\ output.drawn[k].kind = "text"
           /\ output.drawn[k].line > 1
           /\ output.drawn[k].page > output.drawn[k - 1].page

----------------------------------------------------------------------------
(* summarize: the length of the summary *)

\* C38: summarize returns null or a text shorter than its input, for every
\* text that is not blank and every ratio from 0.1 to 0.9
C38_SummaryShorter ==
    (pc = "summarized" /\ input.text # <<>>) =>
        \/ ~output.ret.some
        \/ Len(output.ret.text) < Len(input.text)

\* for a text of more than min_sentences sentences the count given to the
\* summarizer is max(min_sentences, floor(n * ratio)), capped by
\* max_sentences, and is less than n, and the summary is shorter than the text
SummaryShorterWhenSummarized ==
    LET n == Len(input.text)
    IN /\ pc = "summarize_select" =>
              /\ n > input.min_sentences
              /\ output.count < n
              /\ output.count =
                     LET c == Max(input.min_sentences, (n * input.ratio) \div 100)
                     IN IF input.max_sentences.some /\ input.max_sentences.val < c
                        THEN input.max_sentences.val ELSE c
       /\ (pc = "summarized" /\ n > input.min_sentences) =>
              \/ ~output.ret.some
              \/ Len(output.ret.text) < n

----------------------------------------------------------------------------
(* WhisperProcessor: get_instance and the current model *)

\* C39: get_instance() always gives the one processor, with its current
\* model reset and its cache kept: right after it no model is current and
\* the cache holds what the loader has loaded since the last clear_cache, and
\* transcribe reaches the model only if load_model has returned true since
\* the most recent get_instance(), returning null otherwise
C39_GetInstanceResets ==
    /\ (pc = "processor" /\ input # <<>> /\ input.fn = "get_instance") =>
           /\ current_model_size = None
           /\ models = output.loaded
    /\ pc = "transcribe_model" => output.selected
    /\ (pc = "transcribe_ret" /\ ~output.selected) =>
           /\ loc.transcription_result = NoTranscript
           /\ CallsTo("model.transcribe") = {}

\* a model was loaded, get_instance() was called again, and transcribe
\* returned null without reaching the model, which is still in the cache
C39_Witness ==
    /\ pc = "transcribe_ret"
    /\ ~output.selected
    /\ models # {}
    /\ loc.transcription_result = NoTranscript

\* transcribe reached the model that load_model had made current
C39_WitnessSelected ==
    /\ pc = "transcribe_ret"
    /\ output.selected
    /\ loc.transcription_result.some

====
